---- MODULE Spec2Model ----
(***************************************************************************)
(* just-rest-client: the request execution, templating and scripting       *)
(* pipeline of web/js (request.js, scripting.js, variable.js, storage.js). *)
(*                                                                         *)
(* Text is modelled as a sequence of one-character strings, so that the    *)
(* template engine and the content-type test work on characters as the     *)
(* JavaScript does.  A log (scriptOutput) is a sequence of log lines, each *)
(* line named by its fixed prefix.                                         *)
(***************************************************************************)
EXTENDS Integers, Sequences, FiniteSets, TLC

\* ------------------------------------------------------------------------
\* Bounds of the model
\* ------------------------------------------------------------------------

\* readings of the clock that differ from the first one
MaxClock == 2

\* statements in the scripts of one request, pre-script and post-script together
MaxScriptLen == 2

\* characters of a template string handed to applyTemplate on its own
MaxTemplateLen == 6

\* operations on the variable store made outside a request in one run
MaxStoreOps == 2

\* ------------------------------------------------------------------------
\* Text helpers
\* ------------------------------------------------------------------------

\* String.prototype.trim: the characters the model treats as white space
WhiteSpace == {" ", "\n"}

\* line terminators, which the regular expression dot does not match
LineTerminators == {"\n"}

Trim(s) ==
    LET RECURSIVE TrimLeft(_)
        TrimLeft(t) ==
            IF t # <<>> /\ Head(t) \in WhiteSpace THEN TrimLeft(Tail(t)) ELSE t
        RECURSIVE TrimRight(_)
        TrimRight(t) ==
            IF t # <<>> /\ t[Len(t)] \in WhiteSpace
            THEN TrimRight(SubSeq(t, 1, Len(t) - 1))
            ELSE t
    IN  TrimRight(TrimLeft(s))

\* String.prototype.includes
Includes(s, sub) ==
    \E i \in 1..(Len(s) - Len(sub) + 1) : SubSeq(s, i, i + Len(sub) - 1) = sub

\* ------------------------------------------------------------------------
\* variable.js
\* ------------------------------------------------------------------------

GlobalGroup == "global"

\* store[group] || {} : the variables of a group, empty when it is absent
GroupVars(store, group) ==
    IF group \in DOMAIN store THEN store[group] ELSE <<>>

\* { ...a, ...b } : the entries of b win
Spread(a, b) ==
    [k \in (DOMAIN a) \cup (DOMAIN b) |-> IF k \in DOMAIN b THEN b[k] ELSE a[k]]

\* the merge with the operands swapped: global entries win
getFlattenedVariablesGlobalWins(store, activeGroup) ==
    LET globalVars == GroupVars(store, GlobalGroup)
        activeVars == IF activeGroup # GlobalGroup /\ activeGroup \in DOMAIN store
                      THEN store[activeGroup]
                      ELSE <<>>
    IN  Spread(activeVars, globalVars)

getFlattenedVariables(store, activeGroup) ==
    LET globalVars == GroupVars(store, GlobalGroup)
        activeVars == IF activeGroup # GlobalGroup /\ activeGroup \in DOMAIN store
                      THEN store[activeGroup]
                      ELSE <<>>
    IN  Spread(globalVars, activeVars)

\* the decimal digits of a natural number
RECURSIVE DigitsOf(_)
DigitsOf(n) ==
    LET Digit(d) == <<"0", "1", "2", "3", "4", "5", "6", "7", "8", "9">>[d + 1]
    IN  IF n < 10 THEN <<Digit(n)>> ELSE DigitsOf(n \div 10) \o <<Digit(n % 10)>>

\* a string or a natural number handed to setVar
StringArg(chars) == [type |-> "string", chars |-> chars, num |-> 0]
NumberArg(n) == [type |-> "number", chars |-> <<>>, num |-> n]

\* String(value) of a string or of a natural number
StringOfValue(value) ==
    IF value.type = "number" THEN DigitsOf(value.num) ELSE value.chars

\* a setVariable that writes to the global group whatever group is active
setVariableInGlobal(store, activeGroup, key, value) ==
    LET withGroup == IF GlobalGroup \in DOMAIN store
                     THEN store
                     ELSE Spread(store, [g \in {GlobalGroup} |-> <<>>])
    IN  [withGroup EXCEPT ![GlobalGroup] =
                              Spread(@, [k \in {key} |-> StringOfValue(value)])]

\* variableStore[currentActiveGroup][key] = String(value), creating the group
setVariableIn(store, activeGroup, key, value) ==
    LET withGroup == IF activeGroup \in DOMAIN store
                     THEN store
                     ELSE Spread(store, [g \in {activeGroup} |-> <<>>])
    IN  [withGroup EXCEPT ![activeGroup] =
                              Spread(@, [k \in {key} |-> StringOfValue(value)])]

\* ------------------------------------------------------------------------
\* request.js: the template engine
\* ------------------------------------------------------------------------

Open == <<"{", "{">>
Close == <<"}", "}">>

At(s, i, pat) == i + 1 <= Len(s) /\ SubSeq(s, i, i + 1) = pat

\* /{{(.*?)}}/ tried at position p: the position of the nearest closing
\* braces, 0 when the pattern does not match at p
MatchEnd(s, p) ==
    IF ~At(s, p, Open)
    THEN 0
    ELSE LET ends == {q \in (p + 2)..(Len(s) - 1) :
                        /\ At(s, q, Close)
                        /\ \A j \in (p + 2)..(q - 1) : s[j] \notin LineTerminators}
         IN  IF ends = {} THEN 0
             ELSE CHOOSE q \in ends : \A r \in ends : q <= r

\* The flattened variables are a plain object, so flatVars[key] also finds
\* what every object inherits from Object.prototype.  The model holds one
\* inherited property, constructor, whose value is the function Object.
ConstructorName ==
    <<"c", "o", "n", "s", "t", "r", "u", "c", "t", "o", "r">>

\* String(Object)
FunctionObjectText ==
    <<"f", "u", "n", "c", "t", "i", "o", "n", " ", "O", "b", "j", "e", "c",
      "t", "(", ")", " ", "{", " ", "[", "n", "a", "t", "i", "v", "e", " ",
      "c", "o", "d", "e", "]", " ", "}">>

\* the inherited properties, each with the text String() gives for its value
ObjectPrototype == [k \in {ConstructorName} |-> FunctionObjectText]

\* obj[key] !== undefined
HasProperty(obj, key) == key \in DOMAIN obj \/ key \in DOMAIN ObjectPrototype

\* String(obj[key]): an own property hides an inherited one
PropertyText(obj, key) ==
    IF key \in DOMAIN obj THEN obj[key] ELSE ObjectPrototype[key]

\* the replacement callback of String.prototype.replace
Replacement(s, p, q, flatVars) ==
    LET match == SubSeq(s, p, q + 1)
        key == Trim(SubSeq(s, p + 2, q - 1))
    IN  IF HasProperty(flatVars, key) THEN PropertyText(flatVars, key) ELSE match

RECURSIVE ReplaceFrom(_, _, _)
ReplaceFrom(s, p, flatVars) ==
    IF p > Len(s) THEN <<>>
    ELSE LET q == MatchEnd(s, p)
         IN  IF q = 0
             THEN <<s[p]>> \o ReplaceFrom(s, p + 1, flatVars)
             ELSE Replacement(s, p, q, flatVars) \o ReplaceFrom(s, q + 2, flatVars)

\* applyTemplate with the flattened variables it read
applyTemplateVars(templateString, flatVars) ==
    IF templateString = <<>> THEN templateString
    ELSE ReplaceFrom(templateString, 1, flatVars)

applyTemplate(templateString, store, activeGroup) ==
    applyTemplateVars(templateString, getFlattenedVariables(store, activeGroup))

\* ------------------------------------------------------------------------
\* Values of the model
\* ------------------------------------------------------------------------

KeyX == <<"x">>
ValY == <<"y">>
ProdGroup == "prod"

GroupNames == {GlobalGroup, ProdGroup}

\* the stores loadVariableStore can hand to loadInitialVariables
InitialStores ==
    { [g \in {GlobalGroup} |-> <<>>],
      [g \in {GlobalGroup} |-> [k \in {KeyX} |-> <<"1">>]],
      [g \in GroupNames |-> IF g = GlobalGroup THEN [k \in {KeyX} |-> <<"1">>]
                                               ELSE [k \in {KeyX} |-> <<"9">>]] }

\* statements of a user script: setVar("x", "y"), log(...), await http(...),
\* throw new Error(...)
ScriptCodes ==
    UNION {[1..n -> {"setVar", "log", "http", "throw"}] : n \in 0..MaxScriptLen}

\* script ids; the empty id is the falsy value of an unset selector
NoScriptId == <<>>
MissingScriptId == <<"missing">>

\* the collection under restClient.scripts: one record for each script body
SavedScripts == {[id |-> <<"script", c>>, code |-> c] : c \in ScriptCodes}

\* the number of statements of the script an id selects
CodeLen(id) ==
    IF \E s \in SavedScripts : s.id = id
    THEN Len((CHOOSE s \in SavedScripts : s.id = id).code)
    ELSE 0

\* the script selections of a request
ScriptSelections ==
    LET ids == {NoScriptId, MissingScriptId} \cup {s.id : s \in SavedScripts}
    IN  {sel \in ids \X ids : CodeLen(sel[1]) + CodeLen(sel[2]) <= MaxScriptLen}

\* the header rows of the form: a plain header, a row without a key, a row
\* whose key is a placeholder, a row whose key is a blank, an empty row
HeaderInputs ==
    { <<[key |-> <<"h">>, value |-> <<"{", "{", "x", "}", "}">>],
        [key |-> <<>>, value |-> <<"v">>],
        [key |-> <<"{", "{", "x", "}", "}">>, value |-> <<"k">>],
        [key |-> <<" ">>, value |-> <<"w">>],
        [key |-> <<>>, value |-> <<>>]>> }

\* headers.get('content-type') of a response without the header: falsy
NoContentType == <<>>
JsonType == <<"a", "/", "j", "s", "o", "n">>

JsonBody == <<"1">>
BadBody == <<"<">>

\* a Headers object: a set of <<name, value>> pairs
HeadersOf(contentType) ==
    IF contentType = NoContentType THEN {} ELSE {<<"content-type", contentType>>}

\* headers.get(name): null, modelled as the empty text, when the header is absent
HeadersGet(headers, name) ==
    IF \E p \in headers : p[1] = name
    THEN (CHOOSE p \in headers : p[1] = name)[2]
    ELSE <<>>

\* what the transport can resolve with
Responses ==
    { [status |-> "200", statusText |-> "OK", headers |-> HeadersOf(JsonType), body |-> JsonBody],
      [status |-> "200", statusText |-> "OK", headers |-> HeadersOf(JsonType), body |-> BadBody],
      [status |-> "404", statusText |-> "Not Found", headers |-> HeadersOf(<<"t", "e", "x", "t">>), body |-> BadBody],
      [status |-> "200", statusText |-> "OK", headers |-> HeadersOf(NoContentType), body |-> JsonBody],
      [status |-> "200", statusText |-> "OK", headers |-> HeadersOf(<<"A", "/", "J", "S", "O", "N">>), body |-> JsonBody] }

\* what the transport can reject with: Error objects, strings, undefined
ErrorValues ==
    { [type |-> "Error", name |-> "TypeError", message |-> "Failed to fetch"],
      [type |-> "Error", name |-> "Error", message |-> ""],
      [type |-> "string", name |-> "", message |-> "timeout"],
      [type |-> "string", name |-> "", message |-> ""],
      [type |-> "undefined", name |-> "", message |-> ""] }

NoError == [type |-> "none", name |-> "", message |-> ""]
SyntaxError == [type |-> "Error", name |-> "SyntaxError", message |-> "Unexpected token"]
BodyUsedError == [type |-> "Error", name |-> "TypeError", message |-> "body stream already read"]

\* ------------------------------------------------------------------------
\* Log lines
\* ------------------------------------------------------------------------

\* the line a script helper appends, by the function that runs the script
SetLine(phase) ==
    IF phase = "pre" THEN "[Pre-Script] Variable set" ELSE "[Script Success] Variable set"
LogLine(phase) == IF phase = "pre" THEN "[Pre-Log]" ELSE "[Log]"
ErrorLine(phase) ==
    IF phase = "pre" THEN "[Pre-Script Execution Error]" ELSE "[Script Execution Error]"

\* a JavaScript value held in the executor's scriptOutput: a string (a log)
\* or the promise an async function returned
StringValue(lines) == [isPromise |-> FALSE, text |-> lines]
PromiseValue == [isPromise |-> TRUE, text |-> <<>>]

\* String(v), as the += operator applies it
StringOf(v) == IF v.isPromise THEN <<"[object Promise]">> ELSE v.text

\* a += b
PlusEquals(a, b) == StringValue(StringOf(a) \o StringOf(b))

\* ------------------------------------------------------------------------
\* scripting.js
\* ------------------------------------------------------------------------

Phases == {"pre", "post"}

NullData == [kind |-> "null", json |-> "", text |-> <<>>, error |-> ""]

\* One call of executePreScript or executePostScript.
\*   state: "absent" (never called), "awaiting" (suspended in http()),
\*          "returning" (the script's promise has settled and the rest of the
\*          function is queued as a microtask), "done" (its promise resolved),
\*          "rejected" (the function threw and its promise rejected)
\*   code: the statements still to run; error: the script's promise rejected
\*   scriptOutput: the function's local log; writes: the setVar calls made
\*   responseData: the argument bound for the script
NoTask ==
    [state |-> "absent", phase |-> "pre", code |-> <<>>, error |-> FALSE,
     scriptOutput |-> <<>>, writes |-> <<>>, responseData |-> NullData]

\* a null element of the array stored under restClient.scripts, as an
\* imported file can leave it there
NullEntry == [id |-> <<"null">>, code |-> <<>>]

\* getAllScripts() throws a TypeError: its map callback reads s.group of null
LookupThrows(scripts) == NullEntry \in scripts

\* scripts.find(s => s.id === id)
FindScript(scripts, id) == {s \in scripts : s.id = id}

\* runs the statements of the script up to its next await, its throw or its
\* end; setVar writes go to the store through setVariable
RECURSIVE RunScript(_, _, _)
RunScript(t, store, group) ==
    IF t.code = <<>>
    THEN [task |-> [t EXCEPT !.state = "returning"], store |-> store]
    ELSE LET op == Head(t.code)
             rest == Tail(t.code)
         IN  CASE op = "setVar" ->
                    RunScript([t EXCEPT !.code = rest,
                                        !.writes = Append(@, <<KeyX, ValY>>),
                                        !.scriptOutput = Append(@, SetLine(t.phase))],
                              setVariableIn(store, group, KeyX, StringArg(ValY)),
                              group)
               [] op = "log" ->
                    RunScript([t EXCEPT !.code = rest,
                                        !.scriptOutput = Append(@, LogLine(t.phase))],
                              store, group)
               [] op = "http" ->
                    [task |-> [t EXCEPT !.code = rest, !.state = "awaiting",
                                        !.scriptOutput = Append(@, "[HTTP] request")],
                     store |-> store]
               [] OTHER ->
                    [task |-> [t EXCEPT !.code = <<>>, !.state = "returning",
                                        !.error = TRUE],
                     store |-> store]

\* a lookup that fails by throwing instead of returning the log
executePreScriptMissingThrows(preScriptId, scripts, store, group) ==
    LET found == FindScript(scripts, preScriptId)
        t == [NoTask EXCEPT !.phase = "pre", !.scriptOutput = <<"[Pre-Request Script]">>]
    IN  IF preScriptId = NoScriptId
        THEN [task |-> [t EXCEPT !.state = "done", !.scriptOutput = <<>>],
              store |-> store]
        ELSE IF found = {}
        THEN [task |-> [t EXCEPT !.state = "returning", !.error = TRUE],
              store |-> store]
        ELSE RunScript([t EXCEPT !.code = (CHOOSE s \in found : TRUE).code],
                       store, group)

\* the synchronous part of executePreScript(preScriptId)
executePreScript(preScriptId, scripts, store, group) ==
    LET found == FindScript(scripts, preScriptId)
        t == [NoTask EXCEPT !.phase = "pre", !.scriptOutput = <<"[Pre-Request Script]">>]
    IN  IF preScriptId = NoScriptId
        THEN [task |-> [t EXCEPT !.state = "done", !.scriptOutput = <<>>],
              store |-> store]
        ELSE IF LookupThrows(scripts)
        THEN [task |-> [t EXCEPT !.state = "rejected", !.error = TRUE],
              store |-> store]
        ELSE IF found = {}
        THEN [task |-> [t EXCEPT !.state = "done",
                                 !.scriptOutput = Append(@, "[Script Error] Pre-script not found.")],
              store |-> store]
        ELSE RunScript([t EXCEPT !.code = (CHOOSE s \in found : TRUE).code],
                       store, group)

\* the synchronous part of executePostScript(postScriptId, response, responseData)
executePostScript(postScriptId, data, scripts, store, group) ==
    LET found == FindScript(scripts, postScriptId)
        t == [NoTask EXCEPT !.phase = "post", !.responseData = data]
    IN  IF postScriptId = NoScriptId
        THEN [task |-> [t EXCEPT !.state = "done",
                                 !.scriptOutput = <<"No post-request script configured.">>],
              store |-> store]
        ELSE IF LookupThrows(scripts)
        THEN [task |-> [t EXCEPT !.state = "rejected", !.error = TRUE],
              store |-> store]
        ELSE IF found = {}
        THEN [task |-> [t EXCEPT !.state = "done",
                                 !.scriptOutput = Append(@, "[Script Error] Saved script not found.")],
              store |-> store]
        ELSE RunScript([t EXCEPT !.code = (CHOOSE s \in found : TRUE).code],
                       store, group)

\* http() after its transport call settled: the response line and the rest of
\* the script, or the error line and the re-thrown error, which the scripts
\* of the model do not catch
ResumeScript(t, ok, store, group) ==
    IF ok
    THEN RunScript([t EXCEPT !.scriptOutput = Append(@, "[HTTP] Response")],
                   store, group)
    ELSE [task |-> [t EXCEPT !.code = <<>>, !.state = "returning", !.error = TRUE,
                             !.scriptOutput = Append(@, "[HTTP Error]")],
          store |-> store]

\* a sandbox boundary that lets the failure of the script pass
ReturnScriptUncaught(t) ==
    [t EXCEPT !.state = "done"]

\* the part of executePre/PostScript after "await scriptFunction(...)": the
\* catch block when the script's promise rejected, then the return
ReturnScript(t) ==
    [t EXCEPT !.state = "done",
              !.scriptOutput = IF t.error THEN Append(@, ErrorLine(t.phase)) ELSE @]

\* ------------------------------------------------------------------------
\* request.js: executeRequest
\* ------------------------------------------------------------------------

VARIABLES
    variableStore,       \* variable.js: the grouped store
    persistedVariables,  \* localStorage restClient.variables
    currentActiveGroup,  \* variable.js: the group script helpers use
    scriptCollection,    \* localStorage restClient.scripts
    pc,                  \* where the invocation of executeRequest stands
    args,                \* the arguments of the invocation
    scriptOutput,        \* executeRequest's local scriptOutput
    requestDetails,      \* the resolved request
    response,            \* executeRequest's local response
    responseData,        \* executeRequest's local responseData
    pendingRead,         \* the body read the invocation awaits
    bodyReads,           \* how often each body of the response was read
    transport,           \* the transport call of executeRequest and its outcome
    task,                \* the calls of executePreScript and executePostScript
    fetchCalls,          \* the requests handed to the transport by executeRequest
    delivered,           \* the calls of displayResponse, in order
    variablesList,       \* app.js: the variables panel as last rendered
    rejected,            \* the promise of executeRequest rejected
    flattened,           \* the value a direct call of the resolver returned
    templated,           \* a direct call of applyTemplate, when it was the last operation
    gotVar,              \* what getVar returned, when the last operation was a getVar
    lastWrite,           \* the last operation on a store made outside a request
    primitiveGroups,     \* the groups of the store whose value is a string, not an object
    now, \* Date.now(), in units of its resolution
    requestCollection, \* localStorage restClient.requests
    calls, \* the calls executeRequest made, in order
    other, \* a second invocation of executeRequest, started while the first is in flight
    displayThrows, \* the displayResponse handed to executeRequest throws when it is called
    curl  \* app.js: a call of applyTemplateToString by the cURL generator

vars == <<variableStore, persistedVariables, currentActiveGroup, scriptCollection,
          pc, args, scriptOutput, requestDetails, response, responseData,
          pendingRead, bodyReads, transport, task, fetchCalls, delivered,
          variablesList, rejected, flattened,
                   templated, gotVar, lastWrite,
                   primitiveGroups, now, requestCollection, calls, other, displayThrows, curl>>

NoArgs ==
    [rawUrl |-> <<>>, method |-> "", rawHeaders |-> <<>>, rawBody |-> <<>>,
     preScriptId |-> NoScriptId, postScriptId |-> NoScriptId,
     activeVariableGroup |-> GlobalGroup]

NoResponse == [status |-> "", statusText |-> "", headers |-> {}, body |-> <<>>]

NoRead == [error |-> NoError, json |-> FALSE]

NoReads == [original |-> 0, clone |-> 0]

\* the body of the clone read for a second time
ReadCloneTwice(reads) ==
    [reads |-> [reads EXCEPT !.clone = @ + 2], error |-> BodyUsedError]

\* response.clone() followed by responseClone.json() or responseClone.text():
\* reading a body that was read before rejects
ReadClone(reads) ==
    [reads |-> [reads EXCEPT !.clone = @ + 1],
     error |-> IF reads.clone > 0 THEN BodyUsedError ELSE NoError]

NoTransport == [state |-> "idle", response |-> NoResponse, error |-> NoError]

NoFlattened == [called |-> FALSE, group |-> GlobalGroup, vars |-> <<>>]

\* no direct call of applyTemplate was made
NoTemplated ==
    [called |-> FALSE, templateString |-> [isNull |-> TRUE, chars |-> <<>>],
     group |-> GlobalGroup, result |-> [isNull |-> TRUE, chars |-> <<>>]]

\* the cURL generator was not run
NoCurl ==
    [called |-> FALSE, group |-> GlobalGroup, result |-> [isNull |-> TRUE, chars |-> <<>>]]

\* no getVar was called
NoGotVar ==
    [called |-> FALSE, group |-> GlobalGroup, key |-> <<>>, defined |-> FALSE,
     value |-> <<>>]

\* no operation was made on the store
NoWrite ==
    [writes |-> 0, op |-> "none", group |-> GlobalGroup, key |-> <<>>,
     arg |-> StringArg(<<>>)]

\* no second invocation was started
NoOther == [pc |-> "idle", activeVariableGroup |-> GlobalGroup]

NoDetails == [method |-> "", processedUrl |-> <<>>, headers |-> <<>>, body |-> <<>>,
              hasBody |-> FALSE]

\* the headers object built by the forEach over rawHeaders
RECURSIVE BuildHeaders(_, _, _)
BuildHeaders(rawHeaders, store, activeGroup) ==
    IF rawHeaders = <<>> THEN <<>>
    ELSE LET h == rawHeaders[Len(rawHeaders)]
             before == BuildHeaders(SubSeq(rawHeaders, 1, Len(rawHeaders) - 1),
                                    store, activeGroup)
         IN  IF h.key # <<>>
             THEN Spread(before,
                         [k \in {Trim(h.key)} |-> applyTemplate(h.value, store, activeGroup)])
             ELSE before

\* step 1 of executeRequest: the resolved request
Templating(a, store) ==
    [method |-> a.method,
     processedUrl |-> applyTemplate(a.rawUrl, store, a.activeVariableGroup),
     headers |-> BuildHeaders(a.rawHeaders, store, a.activeVariableGroup),
     hasBody |-> (a.method # "GET" /\ a.method # "HEAD"),
     body |-> IF a.method # "GET" /\ a.method # "HEAD"
              THEN applyTemplate(a.rawBody, store, a.activeVariableGroup)
              ELSE <<>>]

\* contentType && (contentType.includes('json') || contentType.includes('javascript'))
IsJsonContentType(contentType) ==
    /\ contentType # <<>>
    /\ \/ Includes(contentType, <<"j", "s", "o", "n">>)
       \/ Includes(contentType, <<"j", "a", "v", "a", "s", "c", "r", "i", "p", "t">>)

\* a parse that falls back to the text of the body
JsonParseLenient(text) ==
    IF text = JsonBody
    THEN [error |-> NoError, data |-> [NullData EXCEPT !.kind = "json", !.json = "1"]]
    ELSE [error |-> NoError, data |-> [NullData EXCEPT !.kind = "text", !.text = text]]

\* JSON.parse of a body text
JsonParse(text) ==
    IF text = JsonBody
    THEN [error |-> NoError, data |-> [NullData EXCEPT !.kind = "json", !.json = "1"]]
    ELSE [error |-> SyntaxError, data |-> NullData]

\* error.message alone, as in the earlier revisions of the catch block
ErrorMessageOnly(error) ==
    IF error.type = "Error" THEN error.message ELSE ""

\* error?.message || error?.toString() || 'Unknown error'
ErrorMessage(error) ==
    LET message == IF error.type = "Error" THEN error.message ELSE ""
        \* Error.prototype.toString with an empty message is the name; the
        \* string form of a string is itself; undefined?.toString() is undefined
        string == CASE error.type = "Error" -> error.name
                    [] error.type = "string" -> error.message
                    [] OTHER -> ""
    IN  IF message # "" THEN message
        ELSE IF string # "" THEN string
        ELSE "Unknown error"

SyntheticResponse ==
    [status |-> "N/A", statusText |-> "Network Error", headers |-> {}, body |-> <<>>]

\* the catch block of executeRequest
CatchBlock(output, error) ==
    [scriptOutput |-> PlusEquals(PlusEquals(output, StringValue(<<"[Execution Error] Network or Parsing failure">>)),
                                 StringValue(<<"Using Tauri HTTP">>)),
     response |-> SyntheticResponse,
     responseData |-> [NullData EXCEPT !.kind = "error", !.error = ErrorMessage(error)]]

\* no continuation of an async function is queued: the microtask queue is
\* drained before the next transport or body event is handled
NoMicrotask == \A ph \in Phases : task[ph].state # "returning"

\* a setVariable that leaves the saving to the end of the script
PersistNothing(t, before, store) ==
    persistedVariables

\* setVariable's saveVariableStoreFn(variableStore), when the script wrote
Persist(t, before, store) ==
    IF Len(t.writes) > Len(before.writes) THEN store ELSE persistedVariables

\* a step 5 inside the try block: a callback that throws while it displays a
\* response is called again from the catch block, with the synthetic response
CallDisplayInsideTry(result) ==
    IF displayThrows /\ result.response # SyntheticResponse
    THEN delivered \o <<result, [result EXCEPT !.response = SyntheticResponse]>>
    ELSE Append(delivered, result)

\* step 5: displayResponse is called, after and outside the try block; when
\* it throws, the exception leaves executeRequest
CallDisplay(result) ==
    Append(delivered, result)

\* step 5 taking the branch of a missing callback: nothing is displayed
DeliverToNobody(details, resp, data, output, store) ==
    /\ response' = resp
    /\ responseData' = data
    /\ scriptOutput' = output
    /\ pc' = "done"
    /\ UNCHANGED <<delivered, variablesList, rejected>>

\* displayResponse(requestDetails, response, responseData, scriptOutput, ...),
\* which ends by rendering the variables of the active group of the store
Deliver(details, resp, data, output, store) ==
    /\ response' = resp
    /\ responseData' = data
    /\ scriptOutput' = output
    /\ delivered' = CallDisplay([requestDetails |-> details, response |-> resp,
                                 responseData |-> data, scriptOutput |-> output,
                                 processedUrl |-> details.processedUrl])
    /\ variablesList' = IF displayThrows THEN variablesList
                        ELSE GroupVars(store, args.activeVariableGroup)
    /\ rejected' = (rejected \/ displayThrows)
    /\ pc' = "done"

\* the failure leaving executeRequest, as it would without the try block
OnErrorUncaught(error) ==
    /\ rejected' = TRUE
    /\ pc' = "done"
    /\ UNCHANGED <<response, responseData, scriptOutput, delivered, variablesList,
                   variableStore, persistedVariables, task>>

\* the catch block, then step 5
OnError(error) ==
    LET c == CatchBlock(scriptOutput, error)
    IN  /\ Deliver(requestDetails, c.response, c.responseData, c.scriptOutput, variableStore)
        /\ UNCHANGED <<variableStore, persistedVariables, task>>

\* a step 4 that awaits the post-script inside the try block: a fault of the
\* lookup reaches the catch block
OnParsedFaultCaught(data) ==
    LET post == executePostScript(args.postScriptId, data, scriptCollection,
                                  variableStore, currentActiveGroup)
        c == CatchBlock(scriptOutput, SyntaxError)
    IN  /\ task' = [task EXCEPT !["post"] = post.task]
        /\ variableStore' = post.store
        /\ persistedVariables' = Persist(post.task, NoTask, post.store)
        /\ IF post.task.state = "rejected"
           THEN Deliver(requestDetails, c.response, c.responseData, c.scriptOutput,
                        post.store)
           ELSE Deliver(requestDetails, response, data,
                        PlusEquals(scriptOutput, PromiseValue), post.store)

\* step 4, then step 5: the post-script is called and its return value is
\* appended to scriptOutput
OnParsed(data) ==
    LET post == executePostScript(args.postScriptId, data, scriptCollection,
                                  variableStore, currentActiveGroup)
    IN  /\ task' = [task EXCEPT !["post"] = post.task]
        /\ variableStore' = post.store
        /\ persistedVariables' = Persist(post.task, NoTask, post.store)
        /\ Deliver(requestDetails, response, data, PlusEquals(scriptOutput, PromiseValue),
                   post.store)

\* app.js handleSend: rawHeaders.filter(h => h.key || h.value)
RECURSIVE FilterHeaders(_)
FilterHeaders(rawHeaders) ==
    IF rawHeaders = <<>> THEN <<>>
    ELSE LET h == Head(rawHeaders)
         IN  IF h.key # <<>> \/ h.value # <<>>
             THEN <<h>> \o FilterHeaders(Tail(rawHeaders))
             ELSE FilterHeaders(Tail(rawHeaders))

\* app.js handleSend: setActiveGroupForScripts, then executeRequest up to
\* its first await (step 0, step 1 and the call of the transport)
HandleSend(group, url, method, headers, body, pre, post) ==
    LET a == [rawUrl |-> url, method |-> method,
              rawHeaders |-> FilterHeaders(headers),
              rawBody |-> body, preScriptId |-> pre, postScriptId |-> post,
              activeVariableGroup |-> group]
        started == IF pre # NoScriptId
                   THEN executePreScript(pre, scriptCollection, variableStore, group)
                   ELSE [task |-> NoTask, store |-> variableStore]
        details == Templating(a, started.store)
    IN  /\ pc = "idle"
        /\ currentActiveGroup' = group
        /\ args' = a
        /\ task' = [task EXCEPT !["pre"] = started.task]
        /\ variableStore' = started.store
        /\ persistedVariables' = Persist(started.task, NoTask, started.store)
        /\ scriptOutput' = IF pre # NoScriptId THEN PromiseValue ELSE StringValue(<<>>)
        /\ requestDetails' = details
        /\ fetchCalls' = Append(fetchCalls, details)
        /\ calls' = calls \o (IF pre # NoScriptId THEN <<"pre">> ELSE <<>>) \o <<"transport">>
        /\ transport' = [NoTransport EXCEPT !.state = "pending"]
        /\ pc' = "fetching"
        /\ UNCHANGED <<scriptCollection, response, responseData, pendingRead,
                       bodyReads, delivered, variablesList, rejected, flattened,
                   templated, gotVar, lastWrite,
                   primitiveGroups, now, requestCollection, other, displayThrows, curl>>

\* the transport resolves: step 3 clones the response and starts to read the
\* body of the clone
TransportResolve(r) ==
    /\ pc = "fetching"
    /\ NoMicrotask
    /\ transport' = [transport EXCEPT !.state = "resolved", !.response = r]
    /\ response' = r
    /\ bodyReads' = ReadClone(NoReads).reads
    /\ pendingRead' = [error |-> ReadClone(NoReads).error,
                       json |-> IsJsonContentType(HeadersGet(r.headers, "content-type"))]
    /\ pc' = "reading"
    /\ UNCHANGED <<variableStore, persistedVariables, currentActiveGroup,
                   scriptCollection, args, scriptOutput, requestDetails,
                   responseData, task, fetchCalls, delivered, variablesList,
                   rejected, flattened,
                   templated, gotVar, lastWrite,
                   primitiveGroups, now, requestCollection, calls, other, displayThrows, curl>>

\* a transport call that is made again when it has rejected
TransportRejectRetries(e) ==
    /\ pc = "fetching"
    /\ NoMicrotask
    /\ Len(fetchCalls) < 3
    /\ transport' = [transport EXCEPT !.state = "pending", !.error = e]
    /\ fetchCalls' = Append(fetchCalls, requestDetails)
    /\ calls' = Append(calls, "transport")
    /\ UNCHANGED <<variableStore, persistedVariables, currentActiveGroup,
                   scriptCollection, pc, args, scriptOutput, requestDetails,
                   response, responseData, pendingRead, bodyReads, task,
                   delivered, variablesList, rejected, flattened, templated,
                   gotVar, lastWrite, primitiveGroups, now, requestCollection, other, displayThrows, curl>>

\* the transport rejects
TransportReject(e) ==
    /\ pc = "fetching"
    /\ NoMicrotask
    /\ transport' = [transport EXCEPT !.state = "rejected", !.error = e]
    /\ OnError(e)
    /\ UNCHANGED <<currentActiveGroup, scriptCollection, args, requestDetails,
                   pendingRead, bodyReads, fetchCalls, flattened,
                   templated, gotVar, lastWrite,
                   primitiveGroups, now, requestCollection, calls, other, displayThrows, curl>>

\* responseClone.json() or responseClone.text() settles
BodySettles(streamOk) ==
    LET parsed == IF pendingRead.error # NoError
                  THEN [error |-> pendingRead.error, data |-> NullData]
                  ELSE IF ~streamOk
                  THEN [error |-> [type |-> "Error", name |-> "TypeError",
                                   message |-> "network error"],
                        data |-> NullData]
                  ELSE IF pendingRead.json
                  THEN JsonParse(response.body)
                  ELSE [error |-> NoError,
                        data |-> [NullData EXCEPT !.kind = "text", !.text = response.body]]
    IN  /\ pc = "reading"
        /\ NoMicrotask
        /\ IF parsed.error = NoError THEN OnParsed(parsed.data) ELSE OnError(parsed.error)
        /\ calls' = IF parsed.error = NoError THEN Append(calls, "post") ELSE calls
        /\ UNCHANGED <<currentActiveGroup, scriptCollection, args, requestDetails,
                       pendingRead, bodyReads, transport, fetchCalls, flattened,
                   templated, gotVar, lastWrite,
                   primitiveGroups, now, requestCollection, other, displayThrows, curl>>

\* the transport call of a script's http() settles and the script runs on
ScriptHttpSettles(ph, ok) ==
    LET r == ResumeScript(task[ph], ok, variableStore, currentActiveGroup)
    IN  /\ task[ph].state = "awaiting"
        /\ NoMicrotask
        /\ task' = [task EXCEPT ![ph] = r.task]
        /\ variableStore' = r.store
        /\ persistedVariables' = Persist(r.task, task[ph], r.store)
        /\ UNCHANGED <<currentActiveGroup, scriptCollection, pc, args, scriptOutput,
                       requestDetails, response, responseData, pendingRead,
                       bodyReads, transport, fetchCalls, delivered, variablesList,
                       rejected, flattened,
                   templated, gotVar, lastWrite,
                   primitiveGroups, now, requestCollection, calls, other, displayThrows, curl>>

\* the queued rest of executePreScript or executePostScript runs
ScriptReturns(ph) ==
    /\ task[ph].state = "returning"
    /\ task' = [task EXCEPT ![ph] = ReturnScript(task[ph])]
    /\ UNCHANGED <<variableStore, persistedVariables, currentActiveGroup,
                   scriptCollection, pc, args, scriptOutput, requestDetails,
                   response, responseData, pendingRead, bodyReads, transport,
                   fetchCalls, delivered, variablesList, rejected, flattened,
                   templated, gotVar, lastWrite,
                   primitiveGroups, now, requestCollection, calls, other, displayThrows, curl>>

Init ==
    /\ variableStore \in InitialStores
    /\ persistedVariables = variableStore
    /\ currentActiveGroup = GlobalGroup
    /\ scriptCollection = SavedScripts
    /\ pc = "idle"
    /\ args = NoArgs
    /\ scriptOutput = StringValue(<<>>)
    /\ requestDetails = NoDetails
    /\ response = NoResponse
    /\ responseData = NullData
    /\ pendingRead = NoRead
    /\ bodyReads = NoReads
    /\ transport = NoTransport
    /\ task = [ph \in Phases |-> NoTask]
    /\ fetchCalls = <<>>
    /\ delivered = <<>>
    /\ variablesList = <<>>
    /\ rejected = FALSE
    /\ flattened = NoFlattened
    /\ templated = NoTemplated
    /\ gotVar = NoGotVar
    /\ lastWrite = NoWrite
    /\ primitiveGroups = {}
    /\ now = 0
    /\ requestCollection = <<>>
    /\ calls = <<>>
    /\ other = NoOther
    /\ displayThrows = FALSE
    /\ curl = NoCurl

Next ==
    \/ \E group \in GroupNames, url \in {<<"/", "{", "{", "x", "}", "}">>}, method \in {"GET", "POST"},
          headers \in HeaderInputs, body \in {<<"{", "{", " ", "x", " ", "}", "}">>}, sel \in ScriptSelections :
          HandleSend(group, url, method, headers, body, sel[1], sel[2])
    \/ \E r \in Responses : TransportResolve(r)
    \/ \E e \in ErrorValues : TransportReject(e)
    \/ \E streamOk \in BOOLEAN : BodySettles(streamOk)
    \/ \E ph \in Phases, ok \in BOOLEAN : ScriptHttpSettles(ph, ok)
    \/ \E ph \in Phases : ScriptReturns(ph)

Spec == Init /\ [][Next]_vars

\* the pipeline with any array under restClient.scripts: the scripts saved by
\* the application, with or without a null element
InitAnyScripts ==
    /\ variableStore \in InitialStores
    /\ persistedVariables = variableStore
    /\ currentActiveGroup = GlobalGroup
    /\ scriptCollection \in {SavedScripts, SavedScripts \cup {NullEntry}}
    /\ pc = "idle"
    /\ args = NoArgs
    /\ scriptOutput = StringValue(<<>>)
    /\ requestDetails = NoDetails
    /\ response = NoResponse
    /\ responseData = NullData
    /\ pendingRead = NoRead
    /\ bodyReads = NoReads
    /\ transport = NoTransport
    /\ task = [ph \in Phases |-> NoTask]
    /\ fetchCalls = <<>>
    /\ delivered = <<>>
    /\ variablesList = <<>>
    /\ rejected = FALSE
    /\ flattened = NoFlattened
    /\ templated = NoTemplated
    /\ gotVar = NoGotVar
    /\ lastWrite = NoWrite
    /\ primitiveGroups = {}
    /\ now = 0
    /\ requestCollection = <<>>
    /\ calls = <<>>
    /\ other = NoOther
    /\ displayThrows = FALSE
    /\ curl = NoCurl

SpecAnyScripts == InitAnyScripts /\ [][Next]_vars

\* the state after construction, with a displayResponse that renders or throws
InitAnyCallback ==
    /\ variableStore \in InitialStores
    /\ persistedVariables = variableStore
    /\ currentActiveGroup = GlobalGroup
    /\ scriptCollection = SavedScripts
    /\ pc = "idle"
    /\ args = NoArgs
    /\ scriptOutput = StringValue(<<>>)
    /\ requestDetails = NoDetails
    /\ response = NoResponse
    /\ responseData = NullData
    /\ pendingRead = NoRead
    /\ bodyReads = NoReads
    /\ transport = NoTransport
    /\ task = [ph \in Phases |-> NoTask]
    /\ fetchCalls = <<>>
    /\ delivered = <<>>
    /\ variablesList = <<>>
    /\ rejected = FALSE
    /\ flattened = NoFlattened
    /\ templated = NoTemplated
    /\ gotVar = NoGotVar
    /\ lastWrite = NoWrite
    /\ primitiveGroups = {}
    /\ now = 0
    /\ requestCollection = <<>>
    /\ calls = <<>>
    /\ other = NoOther
    /\ curl = NoCurl
    /\ displayThrows \in BOOLEAN

SpecAnyCallback == InitAnyCallback /\ [][Next]_vars

\* ------------------------------------------------------------------------
\* The resolver on its own: getFlattenedVariables called on every store
\* ------------------------------------------------------------------------

KeyB == <<"b">>
DevGroup == "dev"

ResolverKeys == {KeyX, KeyB}
ResolverGroups == GroupNames \cup {DevGroup}

\* getFlattenedVariables(activeGroup)
Flatten(group) ==
    /\ flattened' = [called |-> TRUE, group |-> group,
                     vars |-> getFlattenedVariables(variableStore, group)]
    /\ UNCHANGED <<variableStore, persistedVariables, currentActiveGroup,
                   scriptCollection, pc, args, scriptOutput, requestDetails,
                   response, responseData, pendingRead, bodyReads, transport,
                   task, fetchCalls, delivered, variablesList, rejected,
                   templated, gotVar, lastWrite,
                   primitiveGroups, now, requestCollection, calls, other, displayThrows, curl>>

setActiveGroupForScripts(groupName) ==
    /\ currentActiveGroup' = groupName
    /\ UNCHANGED <<variableStore, persistedVariables, scriptCollection, pc, args,
                   scriptOutput, requestDetails, response, responseData,
                   pendingRead, bodyReads, transport, task, fetchCalls, delivered,
                   variablesList, rejected, flattened,
                   templated, gotVar, lastWrite,
                   primitiveGroups, now, requestCollection, calls, other, displayThrows, curl>>

InitResolver ==
    /\ variableStore \in
          LET maps == UNION {[D -> {<<"1">>, <<"9">>}] : D \in SUBSET ResolverKeys}
          IN  UNION {[G -> maps] : G \in SUBSET GroupNames}
    /\ persistedVariables = variableStore
    /\ currentActiveGroup = GlobalGroup
    /\ scriptCollection = SavedScripts
    /\ pc = "idle"
    /\ args = NoArgs
    /\ scriptOutput = StringValue(<<>>)
    /\ requestDetails = NoDetails
    /\ response = NoResponse
    /\ responseData = NullData
    /\ pendingRead = NoRead
    /\ bodyReads = NoReads
    /\ transport = NoTransport
    /\ task = [ph \in Phases |-> NoTask]
    /\ fetchCalls = <<>>
    /\ delivered = <<>>
    /\ variablesList = <<>>
    /\ rejected = FALSE
    /\ flattened = NoFlattened
    /\ templated = NoTemplated
    /\ gotVar = NoGotVar
    /\ lastWrite = NoWrite
    /\ primitiveGroups = {}
    /\ now = 0
    /\ requestCollection = <<>>
    /\ calls = <<>>
    /\ other = NoOther
    /\ displayThrows = FALSE
    /\ curl = NoCurl

NextResolver ==
    \/ \E group \in ResolverGroups : Flatten(group)
    \/ Flatten(currentActiveGroup)
    \/ \E group \in ResolverGroups : setActiveGroupForScripts(group)

SpecResolver == InitResolver /\ [][NextResolver]_vars

\* ------------------------------------------------------------------------
\* The template engine on its own: applyTemplate called on bounded strings
\* ------------------------------------------------------------------------

\* a string argument; null is the same record with isNull
Text(chars) == [isNull |-> FALSE, chars |-> chars]

TemplateInputs ==
    LET chars == {"{", "}", " ", "x", "\n"}
        strings == UNION {[1..n -> chars] : n \in 0..MaxTemplateLen}
    IN  {[isNull |-> TRUE, chars |-> <<>>]}
        \cup {Text(t) : t \in strings \cup {Open \o ConstructorName \o Close,
                                              Open \o KeyX \o Close \o <<"{">>
                                                  \o KeyX \o Close}}

\* applyTemplate(templateString, activeGroup), null allowed as the argument
applyTemplateValue(templateString, store, activeGroup) ==
    IF templateString.isNull
    THEN templateString
    ELSE Text(applyTemplate(templateString.chars, store, activeGroup))

\* a call of applyTemplate with the string drawn at the start
ApplyTemplate(group) ==
    /\ templated' = [templated EXCEPT
                         !.called = TRUE,
                         !.group = group,
                         !.result = applyTemplateValue(templated.templateString,
                                                       variableStore, group)]
    /\ UNCHANGED <<variableStore, persistedVariables, currentActiveGroup,
                   scriptCollection, pc, args, scriptOutput, requestDetails,
                   response, responseData, pendingRead, bodyReads, transport,
                   task, fetchCalls, delivered, variablesList, rejected,
                   flattened, gotVar, lastWrite, primitiveGroups, now, requestCollection, calls, other, displayThrows, curl>>

InitTemplate ==
    /\ variableStore \in
          { [g \in {GlobalGroup} |-> <<>>],
            [g \in {GlobalGroup} |-> [k \in {KeyX} |-> <<"{">>]],
            [g \in GroupNames |-> IF g = GlobalGroup THEN [k \in {KeyX} |-> <<"1">>]
                                                     ELSE [k \in {KeyX} |-> ValY]] }
    /\ persistedVariables = variableStore
    /\ currentActiveGroup = GlobalGroup
    /\ scriptCollection = SavedScripts
    /\ pc = "idle"
    /\ args = NoArgs
    /\ scriptOutput = StringValue(<<>>)
    /\ requestDetails = NoDetails
    /\ response = NoResponse
    /\ responseData = NullData
    /\ pendingRead = NoRead
    /\ bodyReads = NoReads
    /\ transport = NoTransport
    /\ task = [ph \in Phases |-> NoTask]
    /\ fetchCalls = <<>>
    /\ delivered = <<>>
    /\ variablesList = <<>>
    /\ rejected = FALSE
    /\ flattened = NoFlattened
    /\ templated \in {[NoTemplated EXCEPT !.templateString = t] : t \in TemplateInputs}
    /\ gotVar = NoGotVar
    /\ lastWrite = NoWrite
    /\ primitiveGroups = {}
    /\ now = 0
    /\ requestCollection = <<>>
    /\ calls = <<>>
    /\ other = NoOther
    /\ displayThrows = FALSE
    /\ curl = NoCurl

NextTemplate == \E group \in GroupNames : ApplyTemplate(group)

SpecTemplate == InitTemplate /\ [][NextTemplate]_vars

\* ------------------------------------------------------------------------
\* app.js: the template resolution of the cURL generator
\* ------------------------------------------------------------------------

\* str.replace(/\{\{(\w+)\}\}/g, ...) with the flattened variables of the
\* group of the variables panel: a placeholder is two opening braces, one or
\* more word characters and two closing braces
applyTemplateToString(str, store, activeGroup) ==
    LET flatVars == getFlattenedVariables(store, activeGroup)
        WordChars == {"a", "b", "c", "d", "e", "f", "g", "h", "i", "j", "k", "l", "m",
                      "n", "o", "p", "q", "r", "s", "t", "u", "v", "w", "x", "y", "z",
                      "A", "B", "C", "D", "E", "F", "G", "H", "I", "J", "K", "L", "M",
                      "N", "O", "P", "Q", "R", "S", "T", "U", "V", "W", "X", "Y", "Z",
                      "0", "1", "2", "3", "4", "5", "6", "7", "8", "9", "_"}
        \* the position of the closing braces of a match at p, 0 without one
        WordMatchEnd(p) ==
            IF ~At(str.chars, p, Open) THEN 0
            ELSE LET ends == {q \in (p + 3)..(Len(str.chars) - 1) :
                                /\ At(str.chars, q, Close)
                                /\ \A j \in (p + 2)..(q - 1) : str.chars[j] \in WordChars}
                 IN  IF ends = {} THEN 0 ELSE CHOOSE q \in ends : TRUE
        RECURSIVE ReplaceWordsFrom(_)
        ReplaceWordsFrom(p) ==
            IF p > Len(str.chars) THEN <<>>
            ELSE LET q == WordMatchEnd(p)
                     varName == SubSeq(str.chars, p + 2, q - 1)
                 IN  IF q = 0
                     THEN <<str.chars[p]>> \o ReplaceWordsFrom(p + 1)
                     ELSE (IF HasProperty(flatVars, varName)
                           THEN PropertyText(flatVars, varName)
                           ELSE SubSeq(str.chars, p, q + 1))
                          \o ReplaceWordsFrom(q + 2)
    IN  IF str.isNull \/ str.chars = <<>> THEN str
        ELSE Text(ReplaceWordsFrom(1))

\* app.js generateCurlCommand resolving the string drawn at the start with
\* the group selected in the variables panel
GenerateCurl(group) ==
    /\ curl' = [called |-> TRUE, group |-> group,
                result |-> applyTemplateToString(templated.templateString,
                                                 variableStore, group)]
    /\ UNCHANGED <<variableStore, persistedVariables, currentActiveGroup,
                   scriptCollection, pc, args, scriptOutput, requestDetails,
                   response, responseData, pendingRead, bodyReads, transport,
                   task, fetchCalls, delivered, variablesList, rejected,
                   flattened, templated, gotVar, lastWrite, primitiveGroups, now,
                   requestCollection, calls, other, displayThrows>>

NextCurl == \E group \in GroupNames : GenerateCurl(group)

SpecCurl == InitTemplate /\ [][NextCurl]_vars

\* ------------------------------------------------------------------------
\* storage.js and app.js: loading the variable store and the operations of
\* the variables panel, of scripts and of the import on it
\* ------------------------------------------------------------------------

\* A JSON value found under a name of restClient.variables or of an imported
\* file: an object or a string.  props is what Object.keys and the spread
\* operator see of it: the properties of an object, the characters of a
\* string under their indexes.
JsonObject(props) == [type |-> "object", props |-> props, chars |-> <<>>]

JsonString(chars) ==
    [type |-> "string",
     props |-> [k \in {DigitsOf(i - 1) : i \in 1..Len(chars)} |->
                   <<chars[CHOOSE i \in 1..Len(chars) : DigitsOf(i - 1) = k]>>],
     chars |-> chars]

\* !value is false: every object and every string but the empty one
Truthy(value) == value.type = "object" \/ value.chars # <<>>

\* JSON data as the model holds a store: the properties of each group, and
\* the groups that are strings
StoreOf(data) == [g \in DOMAIN data |-> data[g].props]
PrimitivesOf(data) == {g \in DOMAIN data : data[g].type # "object"}

\* the store of the model as JSON data; the characters of a string are
\* taken from its indexed properties
DataOf(store, primitives) ==
    LET CharsOf(props) ==
            [i \in 1..Cardinality(DOMAIN props) |-> props[DigitsOf(i - 1)][1]]
    IN  [g \in DOMAIN store |->
            IF g \in primitives THEN JsonString(CharsOf(store[g]))
                                ELSE JsonObject(store[g])]

\* what localStorage holds under restClient.variables: nothing, a text that
\* JSON.parse rejects, or the text of a JSON object
JsonContent(data) == [kind |-> "json", data |-> data]

\* a top-level name of the old flat format as a variable key
KeyOfName(name) ==
    CASE name = "x" -> KeyX
      [] name = GlobalGroup -> <<"g", "l", "o", "b", "a", "l">>
      [] name = ProdGroup -> <<"p", "r", "o", "d">>
      [] OTHER -> <<"d", "e", "v">>

\* storage.js loadVariableStore: the store it returns and the content it
\* leaves under restClient.variables
loadVariableStore(content) ==
    IF content.kind = "unparsable"
    THEN [data |-> [g \in {GlobalGroup} |-> JsonObject(<<>>)], persisted |-> content]
    ELSE LET data == content.data
             \* String(value) of an object kept as the value of a variable
             ObjectObjectText ==
                 <<"[", "o", "b", "j", "e", "c", "t", " ", "O", "b", "j", "e",
                   "c", "t", "]">>
             \* the properties of data as the variables of one group
             AsVariables ==
                 [k \in {KeyOfName(n) : n \in DOMAIN data} |->
                     LET n == CHOOSE m \in DOMAIN data : KeyOfName(m) = k
                     IN  IF data[n].type = "object" THEN ObjectObjectText
                                                    ELSE data[n].chars]
             noDefault == GlobalGroup \notin DOMAIN data \/ ~Truthy(data[GlobalGroup])
             hasNonGroupKeys == \E k \in DOMAIN data : data[k].type # "object"
         IN  IF noDefault /\ DOMAIN data # {} /\ hasNonGroupKeys
             THEN LET migratedData == [g \in {GlobalGroup} |-> JsonObject(AsVariables)]
                  IN  [data |-> migratedData, persisted |-> JsonContent(migratedData)]
             ELSE [data |-> IF noDefault
                            THEN Spread(data, [g \in {GlobalGroup} |-> JsonObject(<<>>)])
                            ELSE data,
                   persisted |-> content]

\* app.js init: the default variables
DefaultVariables ==
    LET baseUrl == <<"b", "a", "s", "e", "U", "r", "l">>
        token == <<"t", "o", "k", "e", "n">>
    IN  [k \in {baseUrl, token} |->
            IF k = baseUrl
            THEN <<"h", "t", "t", "p", "s", ":", "/", "/", "j", "s", "o", "n",
                   "p", "l", "a", "c", "e", "h", "o", "l", "d", "e", "r", ".",
                   "t", "y", "p", "i", "c", "o", "d", "e", ".", "c", "o", "m">>
            ELSE <<"i", "n", "i", "t", "i", "a", "l", "_", "t", "o", "k", "e",
                   "n", "_", "1", "2", "3">>]

\* app.js init: renderGroupSelectors reads the persisted store through
\* getAllGroups, and the default variables are added and saved when the
\* global group is missing or has no keys
InitApp(data, persisted) ==
    LET read == loadVariableStore(persisted)
        seed == \/ GlobalGroup \notin DOMAIN data
                \/ ~Truthy(data[GlobalGroup])
                \/ DOMAIN data[GlobalGroup].props = {}
        seeded == Spread(data, [g \in {GlobalGroup} |-> JsonObject(DefaultVariables)])
    IN  IF seed
        THEN [data |-> seeded, persisted |-> JsonContent(seeded)]
        ELSE [data |-> data, persisted |-> read.persisted]

\* the start of the application: loadInitialVariables(loadVariableStore,
\* saveVariableStore) and then app.init
Startup(content) ==
    LET loaded == loadVariableStore(content)
    IN  InitApp(loaded.data, loaded.persisted)

\* the persisted copy as the model holds it; no store when it is not JSON
PersistedStoreOf(content) ==
    IF content.kind = "json" THEN StoreOf(content.data) ELSE <<>>

\* the content under restClient.variables in the current state
PersistedContent == JsonContent(DataOf(persistedVariables, primitiveGroups))

\* the variables of the model outside the store
UnchangedPipeline ==
    UNCHANGED <<scriptCollection, pc, args, scriptOutput, requestDetails,
                response, responseData, pendingRead, bodyReads, transport,
                task, fetchCalls, delivered, rejected, flattened, now, requestCollection, calls, other, displayThrows, curl>>

\* delete map[key]
Remove(map, key) == [k \in (DOMAIN map) \ {key} |-> map[k]]

Written(op, group, key, arg) ==
    [writes |-> lastWrite.writes + 1, op |-> op, group |-> group, key |-> key,
     arg |-> arg]

\* setVar(key, value) of a script: setVariable.  The assignment throws a
\* TypeError when the active group is a string, before anything is saved.
SetVar(key, value) ==
    LET store == IF currentActiveGroup \in primitiveGroups
                 THEN variableStore
                 ELSE setVariableIn(variableStore, currentActiveGroup, key, value)
    IN  /\ lastWrite.writes < MaxStoreOps
        /\ variableStore' = store
        /\ persistedVariables' = IF currentActiveGroup \in primitiveGroups
                                 THEN persistedVariables
                                 ELSE store
        /\ lastWrite' = Written("setVar", currentActiveGroup, key, value)
        /\ gotVar' = NoGotVar
        /\ templated' = NoTemplated
        /\ UNCHANGED <<currentActiveGroup, variablesList, primitiveGroups>>
        /\ UnchangedPipeline

\* getVar(key) of a script: getFlattenedVariables()[key] read from the panel
\* as last rendered
GetVarFromPanel(key) ==
    /\ gotVar' = [called |-> TRUE, group |-> currentActiveGroup, key |-> key,
                  defined |-> HasProperty(variablesList, key),
                  value |-> IF HasProperty(variablesList, key)
                            THEN PropertyText(variablesList, key)
                            ELSE <<>>]
    /\ templated' = NoTemplated
    /\ UNCHANGED <<variableStore, persistedVariables, currentActiveGroup,
                   variablesList, lastWrite, primitiveGroups>>
    /\ UnchangedPipeline

\* getVar(key) of a script: getFlattenedVariables()[key]
GetVar(key) ==
    /\ gotVar' = [called |-> TRUE, group |-> currentActiveGroup, key |-> key,
                  defined |-> HasProperty(getFlattenedVariables(variableStore,
                                                                currentActiveGroup), key),
                  value |-> IF HasProperty(getFlattenedVariables(variableStore,
                                                                 currentActiveGroup), key)
                            THEN PropertyText(getFlattenedVariables(variableStore,
                                                                    currentActiveGroup), key)
                            ELSE <<>>]
    /\ templated' = NoTemplated
    /\ UNCHANGED <<variableStore, persistedVariables, currentActiveGroup,
                   variablesList, lastWrite, primitiveGroups>>
    /\ UnchangedPipeline

\* handleSend's setActiveGroupForScripts(app.activeGroups.variables); the
\* selector offers every name of the persisted list of group names
SelectGroupForScripts(groupName) ==
    /\ currentActiveGroup # groupName
    /\ currentActiveGroup' = groupName
    /\ gotVar' = NoGotVar
    /\ UNCHANGED <<variableStore, persistedVariables, variablesList, lastWrite,
                   primitiveGroups, templated>>
    /\ UnchangedPipeline

\* applyTemplate("{{key}}", activeGroup), as the templating step calls it
\* for the group the panel shows
TemplateKey(activeGroup, key) ==
    /\ templated' = [called |-> TRUE,
                     templateString |-> Text(Open \o key \o Close),
                     group |-> activeGroup,
                     result |-> applyTemplateValue(Text(Open \o key \o Close),
                                                   variableStore, activeGroup)]
    /\ gotVar' = NoGotVar
    /\ UNCHANGED <<variableStore, persistedVariables, currentActiveGroup,
                   variablesList, lastWrite, primitiveGroups>>
    /\ UnchangedPipeline

\* a handler that replaces the variables of the group by the one added
AddVariableReplacesGroup(activeGroup, keyInput, valueInput) ==
    LET key == Trim(keyInput)
        value == Trim(valueInput)
        stored == key # <<>> /\ activeGroup \notin primitiveGroups
        store == IF stored
                 THEN Spread(variableStore,
                             [g \in {activeGroup} |-> [k \in {key} |-> value]])
                 ELSE variableStore
    IN  /\ lastWrite.writes < MaxStoreOps
        /\ variableStore' = store
        /\ persistedVariables' = IF stored THEN store ELSE persistedVariables
        /\ variablesList' = IF stored THEN GroupVars(store, activeGroup)
                                      ELSE variablesList
        /\ lastWrite' = Written("add", activeGroup, key, StringArg(value))
        /\ gotVar' = NoGotVar
        /\ templated' = NoTemplated
        /\ UNCHANGED <<currentActiveGroup, primitiveGroups>>
        /\ UnchangedPipeline

\* the handler of add-var-btn in the group the panel shows
AddVariable(activeGroup, keyInput, valueInput) ==
    LET key == Trim(keyInput)
        value == Trim(valueInput)
        stored == key # <<>> /\ activeGroup \notin primitiveGroups
        \* if (!varStore[group]) varStore[group] = {}
        withGroup == IF activeGroup \in DOMAIN variableStore
                     THEN variableStore
                     ELSE Spread(variableStore, [g \in {activeGroup} |-> <<>>])
        store == IF stored
                 THEN [withGroup EXCEPT ![activeGroup] =
                                            Spread(@, [k \in {key} |-> value])]
                 ELSE variableStore
    IN  /\ lastWrite.writes < MaxStoreOps
        /\ variableStore' = store
        /\ persistedVariables' = IF stored THEN store ELSE persistedVariables
        /\ variablesList' = IF stored THEN GroupVars(store, activeGroup)
                                      ELSE variablesList
        /\ lastWrite' = Written("add", activeGroup, key, StringArg(value))
        /\ gotVar' = NoGotVar
        /\ templated' = NoTemplated
        /\ UNCHANGED <<currentActiveGroup, primitiveGroups>>
        /\ UnchangedPipeline

\* an edit of the panel that is not written to localStorage
saveEditedVariableUnsaved(activeGroup, key, newKeyInput, newValueInput) ==
    LET newKey == Trim(newKeyInput)
        newValue == Trim(newValueInput)
        stored == newKey # <<>> /\ activeGroup \notin primitiveGroups
        removed == IF newKey # key
                   THEN [variableStore EXCEPT ![activeGroup] = Remove(@, key)]
                   ELSE variableStore
        store == IF stored
                 THEN [removed EXCEPT ![activeGroup] =
                                          Spread(@, [k \in {newKey} |-> newValue])]
                 ELSE variableStore
    IN  /\ lastWrite.writes < MaxStoreOps
        /\ key \in DOMAIN GroupVars(variableStore, activeGroup)
        /\ variableStore' = store
        /\ persistedVariables' = persistedVariables
        /\ variablesList' = IF stored THEN GroupVars(store, activeGroup)
                                      ELSE variablesList
        /\ lastWrite' = Written("edit", activeGroup, newKey, StringArg(newValue))
        /\ gotVar' = NoGotVar
        /\ templated' = NoTemplated
        /\ UNCHANGED <<currentActiveGroup, primitiveGroups>>
        /\ UnchangedPipeline

\* app.js saveEditedVariable(key) for an item of the panel
saveEditedVariable(activeGroup, key, newKeyInput, newValueInput) ==
    LET newKey == Trim(newKeyInput)
        newValue == Trim(newValueInput)
        stored == newKey # <<>> /\ activeGroup \notin primitiveGroups
        removed == IF newKey # key
                   THEN [variableStore EXCEPT ![activeGroup] = Remove(@, key)]
                   ELSE variableStore
        store == IF stored
                 THEN [removed EXCEPT ![activeGroup] =
                                          Spread(@, [k \in {newKey} |-> newValue])]
                 ELSE variableStore
    IN  /\ lastWrite.writes < MaxStoreOps
        /\ key \in DOMAIN GroupVars(variableStore, activeGroup)
        /\ variableStore' = store
        /\ persistedVariables' = IF stored THEN store ELSE persistedVariables
        /\ variablesList' = IF stored THEN GroupVars(store, activeGroup)
                                      ELSE variablesList
        /\ lastWrite' = Written("edit", activeGroup, newKey, StringArg(newValue))
        /\ gotVar' = NoGotVar
        /\ templated' = NoTemplated
        /\ UNCHANGED <<currentActiveGroup, primitiveGroups>>
        /\ UnchangedPipeline

\* app.js deleteVariable(key) for an item of the panel, confirmed
deleteVariable(activeGroup, key) ==
    LET deleted == activeGroup \notin primitiveGroups
        store == IF deleted
                 THEN [variableStore EXCEPT ![activeGroup] = Remove(@, key)]
                 ELSE variableStore
    IN  /\ lastWrite.writes < MaxStoreOps
        /\ key \in DOMAIN GroupVars(variableStore, activeGroup)
        /\ variableStore' = store
        /\ persistedVariables' = IF deleted THEN store ELSE persistedVariables
        /\ variablesList' = IF deleted THEN GroupVars(store, activeGroup)
                                       ELSE variablesList
        /\ lastWrite' = Written("delete", activeGroup, key, StringArg(<<>>))
        /\ gotVar' = NoGotVar
        /\ templated' = NoTemplated
        /\ UNCHANGED <<currentActiveGroup, primitiveGroups>>
        /\ UnchangedPipeline

\* app.js createNewGroup('variables') with a name getAllGroups does not
\* list; the panel then shows the new group
createNewGroup(groupName) ==
    LET read == loadVariableStore(PersistedContent)
        store == Spread(variableStore, [g \in {groupName} |-> <<>>])
    IN  /\ lastWrite.writes < MaxStoreOps
        /\ groupName \notin (DOMAIN read.data) \cup {GlobalGroup}
        /\ variableStore' = store
        /\ persistedVariables' = store
        /\ primitiveGroups' = primitiveGroups \ {groupName}
        /\ variablesList' = GroupVars(store, groupName)
        /\ lastWrite' = Written("createGroup", groupName, <<>>, StringArg(<<>>))
        /\ gotVar' = NoGotVar
        /\ templated' = NoTemplated
        /\ UNCHANGED currentActiveGroup
        /\ UnchangedPipeline

\* app.js handleImport with a file that holds JSON: Object.assign on the
\* store and saveVariableStore when the file has variables, then app.init,
\* which renders the group the panel shows
handleImport(importedData, activeGroup) ==
    LET data == DataOf(variableStore, primitiveGroups)
        assigned == IF importedData.hasVariables
                    THEN Spread(data, importedData.variables)
                    ELSE data
        saved == IF importedData.hasVariables
                 THEN JsonContent(assigned)
                 ELSE PersistedContent
        started == InitApp(assigned, saved)
    IN  /\ lastWrite.writes < MaxStoreOps
        /\ variableStore' = StoreOf(started.data)
        /\ primitiveGroups' = PrimitivesOf(started.data)
        /\ persistedVariables' = PersistedStoreOf(started.persisted)
        /\ variablesList' = GroupVars(StoreOf(started.data), activeGroup)
        /\ lastWrite' = Written("import", activeGroup, <<>>, StringArg(<<>>))
        /\ gotVar' = NoGotVar
        /\ templated' = NoTemplated
        /\ UNCHANGED currentActiveGroup
        /\ UnchangedPipeline

\* the values tried
UiValue == <<"u">>
StoreKeys == {KeyX, KeyB}
KeyInputs == StoreKeys \cup {<<" ">>}

\* contents of restClient.variables that the application wrote itself: none
\* on the first run, stores with their global group, the old flat format
WrittenContents ==
    { [kind |-> "absent", data |-> <<>>],
      JsonContent([g \in {GlobalGroup} |-> JsonObject([k \in {KeyX} |-> <<"1">>])]),
      JsonContent([g \in GroupNames |->
                      IF g = GlobalGroup THEN JsonObject([k \in {KeyX} |-> <<"1">>])
                                         ELSE JsonObject([k \in {KeyX} |-> <<"9">>])]),
      JsonContent([n \in {"x"} |-> JsonString(<<"1">>)]) }

\* files exported by the application: without variables, or with groups
ExportedFiles ==
    { [hasVariables |-> FALSE, variables |-> <<>>],
      [hasVariables |-> TRUE,
       variables |-> [g \in {ProdGroup} |-> JsonObject([k \in {KeyB} |-> UiValue])]],
      [hasVariables |-> TRUE,
       variables |-> [g \in {GlobalGroup} |-> JsonObject([k \in {KeyB} |-> UiValue])]] }

\* the store after the start of the application with the given content
InitStoreWith(contents) ==
    /\ \E content \in contents :
          /\ variableStore = StoreOf(Startup(content).data)
          /\ primitiveGroups = PrimitivesOf(Startup(content).data)
          /\ persistedVariables = PersistedStoreOf(Startup(content).persisted)
    /\ currentActiveGroup = GlobalGroup
    /\ scriptCollection = SavedScripts
    /\ pc = "idle"
    /\ args = NoArgs
    /\ scriptOutput = StringValue(<<>>)
    /\ requestDetails = NoDetails
    /\ response = NoResponse
    /\ responseData = NullData
    /\ pendingRead = NoRead
    /\ bodyReads = NoReads
    /\ transport = NoTransport
    /\ task = [ph \in Phases |-> NoTask]
    /\ fetchCalls = <<>>
    /\ delivered = <<>>
    /\ variablesList = GroupVars(variableStore, GlobalGroup)
    /\ rejected = FALSE
    /\ flattened = NoFlattened
    /\ templated = NoTemplated
    /\ gotVar = NoGotVar
    /\ lastWrite = NoWrite
    /\ now = 0
    /\ requestCollection = <<>>
    /\ calls = <<>>
    /\ other = NoOther
    /\ displayThrows = FALSE
    /\ curl = NoCurl

\* the operations on the store, with the files that can be imported
StoreStep(files) ==
    \/ \E value \in {StringArg(ValY), NumberArg(7)} : SetVar(KeyX, value)
    \/ \E key \in StoreKeys : GetVar(key)
    \/ \E group \in GroupNames : TemplateKey(group, KeyX)
    \/ \E group \in ResolverGroups : SelectGroupForScripts(group)
    \/ \E group \in ResolverGroups, key \in KeyInputs : AddVariable(group, key, UiValue)
    \/ \E group \in ResolverGroups, key \in StoreKeys, newKey \in KeyInputs :
          saveEditedVariable(group, key, newKey, UiValue)
    \/ \E group \in ResolverGroups, key \in StoreKeys : deleteVariable(group, key)
    \/ \E group \in {ProdGroup, DevGroup} : createNewGroup(group)
    \/ \E file \in files, group \in GroupNames : handleImport(file, group)

\* the store of an installation that only the application wrote to
InitStore == InitStoreWith(WrittenContents)
NextStore == StoreStep(ExportedFiles)
SpecStore == InitStore /\ [][NextStore]_vars

\* the store with any content under restClient.variables and any file
\* any content: also a text that does not parse, an empty object, a store
\* without the global group, and the old flat format with a variable that is
\* named global
InitLoad ==
    InitStoreWith(
    WrittenContents \cup
    { [kind |-> "unparsable", data |-> <<>>],
      JsonContent(<<>>),
      JsonContent([g \in {ProdGroup} |-> JsonObject([k \in {KeyX} |-> <<"9">>])]),
      JsonContent([n \in {"x", GlobalGroup} |-> JsonString(<<"1">>)]) })

\* any file: also one whose global entry is a string or the empty string
NextLoad ==
    StoreStep(
    ExportedFiles \cup
    { [hasVariables |-> TRUE, variables |-> [g \in {GlobalGroup} |-> JsonString(<<"v">>)]],
      [hasVariables |-> TRUE, variables |-> [g \in {GlobalGroup} |-> JsonString(<<>>)]] })

SpecLoad == InitLoad /\ [][NextLoad]_vars

\* ------------------------------------------------------------------------
\* The migration on its own: the store loaded from the old flat format
\* ------------------------------------------------------------------------

\* variable.js loadInitialVariables: variableStore = loadVariableStoreFn(),
\* with the save loadVariableStore makes when it migrates
loadInitialVariables ==
    LET loaded == loadVariableStore(PersistedContent)
    IN  /\ lastWrite.writes < MaxStoreOps
        /\ variableStore' = StoreOf(loaded.data)
        /\ primitiveGroups' = PrimitivesOf(loaded.data)
        /\ persistedVariables' = PersistedStoreOf(loaded.persisted)
        /\ lastWrite' = Written("load", GlobalGroup, <<>>, StringArg(<<>>))
        /\ UNCHANGED <<currentActiveGroup, variablesList, gotVar, templated>>
        /\ UnchangedPipeline

\* before the application starts, with restClient.variables in the old flat
\* format: a mapping of names to strings, with or without the name global
InitMigrate ==
    /\ variableStore = <<>>
    /\ \E names \in SUBSET {"x", GlobalGroup, ProdGroup} :
          \E flat \in [names -> {<<>>, <<"1">>, <<"2">>}] :
              persistedVariables = StoreOf([n \in names |-> JsonString(flat[n])])
    /\ currentActiveGroup = GlobalGroup
    /\ scriptCollection = SavedScripts
    /\ pc = "idle"
    /\ args = NoArgs
    /\ scriptOutput = StringValue(<<>>)
    /\ requestDetails = NoDetails
    /\ response = NoResponse
    /\ responseData = NullData
    /\ pendingRead = NoRead
    /\ bodyReads = NoReads
    /\ transport = NoTransport
    /\ task = [ph \in Phases |-> NoTask]
    /\ fetchCalls = <<>>
    /\ delivered = <<>>
    /\ variablesList = <<>>
    /\ rejected = FALSE
    /\ flattened = NoFlattened
    /\ templated = NoTemplated
    /\ gotVar = NoGotVar
    /\ lastWrite = NoWrite
    /\ primitiveGroups = DOMAIN persistedVariables
    /\ now = 0
    /\ requestCollection = <<>>
    /\ calls = <<>>
    /\ other = NoOther
    /\ displayThrows = FALSE
    /\ curl = NoCurl

NextMigrate == loadInitialVariables

SpecMigrate == InitMigrate /\ [][NextMigrate]_vars

\* ------------------------------------------------------------------------
\* Invocations that overlap: handleSend while a request is in flight, and the
\* variables panel used meanwhile
\* ------------------------------------------------------------------------

\* the variables a second invocation leaves alone: the locals of the first
UnchangedInvocation ==
    UNCHANGED <<scriptCollection, pc, args, scriptOutput, requestDetails,
                response, responseData, pendingRead, bodyReads, transport,
                task, rejected, flattened, templated, gotVar, lastWrite,
                primitiveGroups, now, requestCollection, calls, displayThrows, curl>>

\* app.js handleSend while the first invocation is in flight, for a GET
\* request whose pre-script is setVar("b", "u") and which has no post-script:
\* setActiveGroupForScripts, the pre-script, templating and the transport call
SendOther(group) ==
    LET store == setVariableIn(variableStore, group, KeyB, StringArg(UiValue))
        a == [NoArgs EXCEPT !.method = "GET", !.activeVariableGroup = group]
    IN  /\ pc \notin {"idle"}
        /\ other.pc = "idle"
        /\ NoMicrotask
        /\ currentActiveGroup' = group
        /\ variableStore' = store
        /\ persistedVariables' = store
        /\ fetchCalls' = Append(fetchCalls, Templating(a, store))
        /\ other' = [pc |-> "fetching", activeVariableGroup |-> group]
        /\ UNCHANGED <<delivered, variablesList>>
        /\ UnchangedInvocation

\* the transport call of the second invocation rejects: its catch block and
\* its call of displayResponse
OtherSettles ==
    LET a == [NoArgs EXCEPT !.method = "GET",
                            !.activeVariableGroup = other.activeVariableGroup]
        c == CatchBlock(PromiseValue, [type |-> "Error", name |-> "TypeError",
                                       message |-> "Failed to fetch"])
    IN  /\ other.pc = "fetching"
        /\ NoMicrotask
        /\ other' = [other EXCEPT !.pc = "done"]
        /\ delivered' = Append(delivered,
                               [requestDetails |-> Templating(a, variableStore),
                                response |-> c.response,
                                responseData |-> c.responseData,
                                scriptOutput |-> c.scriptOutput,
                                processedUrl |-> <<>>])
        /\ variablesList' = GroupVars(variableStore, other.activeVariableGroup)
        /\ UNCHANGED <<variableStore, persistedVariables, currentActiveGroup,
                       fetchCalls>>
        /\ UnchangedInvocation

NextOverlap ==
    \/ \E group \in GroupNames, sel \in ScriptSelections :
          sel[2] = NoScriptId /\ HandleSend(group, <<"/">>, "GET", <<>>, <<>>, sel[1], sel[2])
    \/ TransportResolve([status |-> "200", statusText |-> "OK",
                         headers |-> HeadersOf(NoContentType), body |-> JsonBody])
    \/ TransportReject([type |-> "Error", name |-> "TypeError",
                        message |-> "Failed to fetch"])
    \/ BodySettles(TRUE)
    \/ \E ph \in Phases, ok \in BOOLEAN : ScriptHttpSettles(ph, ok)
    \/ \E ph \in Phases : ScriptReturns(ph)
    \/ \E group \in GroupNames : SendOther(group)
    \/ OtherSettles
    \/ \E group \in GroupNames :
          NoMicrotask /\ AddVariable(group, KeyX, UiValue)

SpecOverlap == Init /\ [][NextOverlap]_vars

\* ------------------------------------------------------------------------
\* storage.js: the collections of saved scripts and requests
\* ------------------------------------------------------------------------

\* a stored record: its id, and the rest of it as one text
Record(id, content) == [id |-> id, content |-> content]

\* the id saveScript and saveRequest generate: the prefix and Date.now()
GeneratedId(prefix, time) == <<prefix, time>>

\* saveScript and saveRequest on the array read from localStorage: the id
\* is generated when the object has none, then the record with that id is
\* replaced, or the object is pushed when no record has it
saveIn(collection, object, prefix, time) ==
    LET saved == IF object.id = NoScriptId
                 THEN [object EXCEPT !.id = GeneratedId(prefix, time)]
                 ELSE object
        found == {i \in 1..Len(collection) : collection[i].id = saved.id}
    IN  IF found # {}
        THEN [collection EXCEPT ![CHOOSE i \in found : \A j \in found : i <= j] = saved]
        ELSE Append(collection, saved)

\* the variables that saving a record leaves alone
UnchangedBySave ==
    UNCHANGED <<variableStore, persistedVariables, currentActiveGroup, pc, args,
                scriptOutput, requestDetails, response, responseData,
                pendingRead, bodyReads, transport, task, fetchCalls, delivered,
                variablesList, rejected, flattened, templated, gotVar,
                primitiveGroups, calls, other, displayThrows, curl>>

\* storage.js saveScript(scriptObject), as saveCurrentScript and the handler
\* of save-pre-script-btn call it
saveScript(scriptObject) ==
    /\ lastWrite.writes < MaxStoreOps
    /\ scriptCollection' = saveIn(scriptCollection, scriptObject, "script-", now)
    /\ lastWrite' = Written("saveScript", GlobalGroup, scriptObject.id, StringArg(<<>>))
    /\ UNCHANGED <<requestCollection, now>>
    /\ UnchangedBySave

\* storage.js saveRequest(requestObject), as saveCurrentRequest calls it;
\* saveAsNewRequest clears the id first
saveRequest(requestObject) ==
    /\ lastWrite.writes < MaxStoreOps
    /\ requestCollection' = saveIn(requestCollection, requestObject, "req-", now)
    /\ lastWrite' = Written("saveRequest", GlobalGroup, requestObject.id, StringArg(<<>>))
    /\ UNCHANGED <<scriptCollection, now>>
    /\ UnchangedBySave

\* time passes between two handlers: the next reading of Date.now() is larger
Tick ==
    /\ now < MaxClock
    /\ now' = now + 1
    /\ UNCHANGED <<scriptCollection, requestCollection, lastWrite>>
    /\ UnchangedBySave

\* the objects handed to a save: a new one without an id, or the one loaded
\* from the collection with its id
SaveInputs(collection) ==
    {Record(id, content) :
        id \in {NoScriptId} \cup {collection[i].id : i \in 1..Len(collection)},
        content \in {"a", "b"}}

InitCollections ==
    /\ variableStore \in InitialStores
    /\ persistedVariables = variableStore
    /\ currentActiveGroup = GlobalGroup
    /\ scriptCollection = <<>>
    /\ pc = "idle"
    /\ args = NoArgs
    /\ scriptOutput = StringValue(<<>>)
    /\ requestDetails = NoDetails
    /\ response = NoResponse
    /\ responseData = NullData
    /\ pendingRead = NoRead
    /\ bodyReads = NoReads
    /\ transport = NoTransport
    /\ task = [ph \in Phases |-> NoTask]
    /\ fetchCalls = <<>>
    /\ delivered = <<>>
    /\ variablesList = <<>>
    /\ rejected = FALSE
    /\ flattened = NoFlattened
    /\ templated = NoTemplated
    /\ gotVar = NoGotVar
    /\ lastWrite = NoWrite
    /\ primitiveGroups = {}
    /\ now = 0
    /\ requestCollection = <<>>
    /\ calls = <<>>
    /\ other = NoOther
    /\ displayThrows = FALSE
    /\ curl = NoCurl

NextCollections ==
    \/ \E object \in SaveInputs(scriptCollection) : saveScript(object)
    \/ \E object \in SaveInputs(requestCollection) : saveRequest(object)
    \/ Tick

SpecCollections == InitCollections /\ [][NextCollections]_vars

\* the transport, the body read, the transport calls of scripts and the
\* queued continuations each settle in the end
TransportSettles ==
    \/ \E r \in Responses : TransportResolve(r)
    \/ \E e \in ErrorValues : TransportReject(e)

FairSpec ==
    /\ Spec
    /\ WF_vars(TransportSettles)
    /\ WF_vars(\E streamOk \in BOOLEAN : BodySettles(streamOk))
    /\ WF_vars(\E ph \in Phases, ok \in BOOLEAN : ScriptHttpSettles(ph, ok))
    /\ WF_vars(\E ph \in Phases : ScriptReturns(ph))

\* ------------------------------------------------------------------------
\* Properties
\* ------------------------------------------------------------------------

LinesOf(lines) == {lines[i] : i \in 1..Len(lines)}

\* a result as displayResponse expects it: the resolved request, a response
\* with status, status text and headers, a decoded body or an error object,
\* and the log as a string
WellShaped(r) ==
    /\ r.requestDetails = requestDetails
    /\ r.processedUrl = requestDetails.processedUrl
    /\ r.response.status \in {"200", "404", "N/A"}
    /\ r.response.statusText \in {"OK", "Not Found", "Network Error"}
    /\ r.responseData.kind \in {"json", "text", "error"}
    /\ r.scriptOutput.isPromise = FALSE

\* C1: executeRequest never rejects, whatever the pre-script, the transport,
\* the body parse and the post-script do, and once it has finished exactly
\* one well-shaped result has been handed to displayResponse.
C1_NeverThrows ==
    /\ rejected = FALSE
    /\ pc = "done" => Len(delivered) = 1 /\ WellShaped(delivered[1])

\* a pre-script that threw, a transport that rejected, and the result displayed
C1_Witness ==
    /\ pc = "done"
    /\ task["pre"].error
    /\ transport.state = "rejected"
    /\ Len(delivered) = 1

\* C2: under fairness of the transport, the body read, the scripts' transport
\* calls and the queued continuations, every invocation that was started
\* reaches Done with a result delivered to displayResponse.
C2_EventuallyDelivered ==
    (pc # "idle") ~> (pc = "done" /\ Len(delivered) = 1)

\* the result is displayed while the pre-script is still suspended in http()
C2_Witness ==
    /\ pc = "done"
    /\ Len(delivered) = 1
    /\ task["pre"].state = "awaiting"

\* C3: when the transport rejects, the result has status "N/A", status text
\* "Network Error", no response headers, an error object with a non-empty
\* message, and a log that contains the execution-error line.
C3_TransportRejectResult ==
    transport.state = "rejected" =>
        /\ Len(delivered) = 1
        /\ delivered[1].response.status = "N/A"
        /\ delivered[1].response.statusText = "Network Error"
        /\ delivered[1].response.headers = {}
        /\ delivered[1].responseData.kind = "error"
        /\ delivered[1].responseData.error # ""
        /\ delivered[1].scriptOutput.isPromise = FALSE
        /\ "[Execution Error] Network or Parsing failure" \in LinesOf(delivered[1].scriptOutput.text)

\* the transport rejected with an empty string
C3_Witness ==
    /\ transport.state = "rejected"
    /\ transport.error.type = "string"
    /\ transport.error.message = ""
    /\ Len(delivered) = 1

\* the response the transport resolved with announces JSON and its body is
\* not valid JSON
AnnouncesBadJson ==
    /\ transport.state = "resolved"
    /\ IsJsonContentType(HeadersGet(transport.response.headers, "content-type"))
    /\ transport.response.body # JsonBody

C5_PreScriptErrorInLog ==
    (pc = "done" /\ task["pre"].error) =>
        /\ Len(fetchCalls) = 1
        /\ Len(delivered) = 1
        /\ "[Pre-Script Execution Error]" \in LinesOf(delivered[1].scriptOutput.text)

\* C6 (as claimed): every setVar the pre-script performs is in the store when
\* the request is resolved, so the URL sent is the template resolved with
\* the value written.
C6_PreScriptWritesTemplated ==
    \A i \in 1..Len(task["pre"].writes) :
        LET w == task["pre"].writes[i]
        IN  /\ Len(fetchCalls) = 1
            /\ fetchCalls[1].processedUrl =
                   applyTemplateVars(args.rawUrl, [k \in {w[1]} |-> w[2]])

\* C7 (as claimed): when the result is displayed the post-script has
\* finished, and the log of the result is the pre-script log followed by
\* every line of the post-script.
C7_ResultAfterPostScript ==
    (Len(delivered) = 1 /\ task["post"].state # "absent") =>
        /\ task["post"].state = "done"
        /\ delivered[1].scriptOutput.text =
               task["pre"].scriptOutput \o task["post"].scriptOutput

\* C8 (as claimed): the setVar("x", "y") of a post-script is in the active
\* group of the store when displayResponse is called, which renders that
\* group into the variables panel.
C8_PostScriptWriteAtCompletion ==
    (Len(delivered) = 1 /\ task["post"].writes # <<>>) =>
        /\ KeyX \in DOMAIN variablesList
        /\ variablesList[KeyX] = ValY

\* C9: the executor reads the body of a response at most once, no result
\* reports a body that was already read, and for a request that succeeded the
\* responseData bound for the post-script is the responseData displayed, the
\* decoded body of the response received.
C9_SingleBodyRead ==
    /\ bodyReads.original + bodyReads.clone <= 1
    /\ \A i \in 1..Len(delivered) :
           delivered[i].responseData.error # BodyUsedError.message
    /\ (pc = "done" /\ delivered[1].response.status # "N/A") =>
           /\ task["post"].state # "absent"
           /\ task["post"].responseData = delivered[1].responseData
           /\ delivered[1].responseData =
                  IF IsJsonContentType(HeadersGet(transport.response.headers, "content-type"))
                  THEN [NullData EXCEPT !.kind = "json", !.json = "1"]
                  ELSE [NullData EXCEPT !.kind = "text", !.text = transport.response.body]

\* a JSON response decoded, handed to a post-script that ran, and displayed
C9_Witness ==
    /\ pc = "done"
    /\ bodyReads.clone = 1
    /\ delivered[1].responseData.kind = "json"
    /\ task["post"].state = "done"
    /\ task["post"].writes # <<>>
    /\ task["post"].responseData.kind = "json"

\* C10: the flattened view has exactly the keys of the active group and of the
\* global group, with the active group's value where it defines the key and
\* the global group's value otherwise; for the group "global" or a group the
\* store does not have, the view is the global group.
C10_FlattenedView ==
    flattened.called =>
        LET active == GroupVars(variableStore, flattened.group)
            global == GroupVars(variableStore, GlobalGroup)
            view == flattened.vars
        IN  /\ DOMAIN view = (DOMAIN active) \cup (DOMAIN global)
            /\ \A k \in DOMAIN view :
                   view[k] = IF k \in DOMAIN active THEN active[k] ELSE global[k]
            /\ (flattened.group = GlobalGroup \/ flattened.group \notin DOMAIN variableStore)
                   => view = global

\* the store {global: {x: "1", b: "1"}, prod: {x: "9"}} flattened for prod
C10_Witness ==
    /\ flattened.called
    /\ flattened.group = ProdGroup
    /\ DOMAIN variableStore = GroupNames
    /\ variableStore[GlobalGroup] = [k \in ResolverKeys |-> <<"1">>]
    /\ variableStore[ProdGroup] = [k \in {KeyX} |-> <<"9">>]
    /\ flattened.vars = [k \in ResolverKeys |-> IF k = KeyX THEN <<"9">> ELSE <<"1">>]

\* the placeholders of s: every stretch from two opening braces to two
\* closing braces with no line terminator between them
PlaceholderSpans(s) ==
    {pq \in (1..Len(s)) \X (1..Len(s)) :
        /\ pq[2] >= pq[1] + 2
        /\ pq[2] + 1 <= Len(s)
        /\ SubSeq(s, pq[1], pq[1] + 1) = Open
        /\ SubSeq(s, pq[2], pq[2] + 1) = Close
        /\ \A j \in (pq[1] + 2)..(pq[2] - 1) : s[j] \notin LineTerminators}

\* s with its placeholders, taken from the left, shortest first and not
\* overlapping, replaced by the value view gives their trimmed name, and
\* left as written when view does not define the name
RECURSIVE Substituted(_, _)
Substituted(s, view) ==
    LET spans == PlaceholderSpans(s)
    IN  IF spans = {} THEN s
        ELSE LET first == CHOOSE pq \in spans : \A o \in spans :
                              \/ pq[1] < o[1]
                              \/ pq[1] = o[1] /\ pq[2] <= o[2]
                 name == Trim(SubSeq(s, first[1] + 2, first[2] - 1))
                 written == SubSeq(s, first[1], first[2] + 1)
             IN  SubSeq(s, 1, first[1] - 1)
                 \o (IF name \in DOMAIN view THEN view[name] ELSE written)
                 \o Substituted(SubSeq(s, first[2] + 2, Len(s)), view)

\* C11 (as claimed): applyTemplate replaces every placeholder whose trimmed
\* name is a variable of the flattened view by its value, leaves every
\* placeholder whose name is not a variable exactly as written and changes
\* nothing outside placeholders; null and the empty string come back
\* unchanged.
C11_TemplateSubstitution ==
    templated.called =>
        LET active == GroupVars(variableStore, templated.group)
            global == GroupVars(variableStore, GlobalGroup)
            view == [k \in (DOMAIN active) \cup (DOMAIN global) |->
                        IF k \in DOMAIN active THEN active[k] ELSE global[k]]
            input == templated.templateString
        IN  /\ templated.result.isNull = input.isNull
            /\ templated.result.chars = Substituted(input.chars, view)

\* the variables the templating step of the request in flight read, while
\* no script has written to the store
ViewAtDispatch == getFlattenedVariables(variableStore, args.activeVariableGroup)

\* C12 (as claimed): every header of the request is sent under its key
\* resolved by the template engine, with its value resolved, and not under
\* the literal text of a key that holds a placeholder of a defined variable.
C12_HeaderKeysResolved ==
    (pc = "fetching" /\ task["pre"].writes = <<>>) =>
        LET sent == fetchCalls[Len(fetchCalls)].headers
        IN  \A j \in 1..Len(args.rawHeaders) :
                LET h == args.rawHeaders[j]
                    key == Trim(applyTemplateVars(h.key, ViewAtDispatch))
                IN  Trim(h.key) # <<>> =>
                        /\ key \in DOMAIN sent
                        /\ sent[key] = applyTemplateVars(h.value, ViewAtDispatch)
                        /\ key # Trim(h.key) => Trim(h.key) \notin DOMAIN sent

\* C13 (as claimed): the header mapping of a request handed to the transport
\* never has the empty string as a key.
C13_NoEmptyHeaderKey ==
    \A i \in 1..Len(fetchCalls) : <<>> \notin DOMAIN fetchCalls[i].headers

\* a text with its capital letters replaced by small ones
LowerCase(text) ==
    LET small == [c \in {"A", "J", "S", "O", "N"} |->
                     CASE c = "A" -> "a" [] c = "J" -> "j" [] c = "S" -> "s"
                       [] c = "O" -> "o" [] OTHER -> "n"]
    IN  [i \in 1..Len(text) |->
            IF text[i] \in DOMAIN small THEN small[text[i]] ELSE text[i]]

\* C14 (as claimed): the body of a response received and read is decoded as
\* JSON exactly when its content-type, compared without regard to case,
\* contains "json" or "javascript", and is read as text otherwise, also when
\* the header is absent.
C14_JsonByContentTypeAnyCase ==
    (pc = "done" /\ transport.state = "resolved"
                 /\ delivered[1].response.status # "N/A") =>
        LET contentType ==
                LowerCase(HeadersGet(transport.response.headers, "content-type"))
            announced ==
                \/ Includes(contentType, <<"j", "s", "o", "n">>)
                \/ Includes(contentType,
                            <<"j", "a", "v", "a", "s", "c", "r", "i", "p", "t">>)
        IN  delivered[1].responseData.kind = IF announced THEN "json" ELSE "text"

\* a request whose scripts, where selected, are not in the collection
OnlyMissingScripts ==
    /\ args.preScriptId \in {NoScriptId, MissingScriptId}
    /\ args.postScriptId \in {NoScriptId, MissingScriptId}
    /\ MissingScriptId \in {args.preScriptId, args.postScriptId}

C16_WritesSurviveThrow ==
    \A ph \in Phases :
        (task[ph].state = "done" /\ task[ph].error /\ task[ph].writes # <<>>) =>
            LET log == task[ph].scriptOutput
                setLines == {i \in 1..Len(log) : log[i] = SetLine(ph)}
            IN  /\ currentActiveGroup \in DOMAIN variableStore
                /\ KeyX \in DOMAIN variableStore[currentActiveGroup]
                /\ variableStore[currentActiveGroup][KeyX] = ValY
                /\ currentActiveGroup \in DOMAIN persistedVariables
                /\ KeyX \in DOMAIN persistedVariables[currentActiveGroup]
                /\ persistedVariables[currentActiveGroup][KeyX] = ValY
                /\ Cardinality(setLines) = Len(task[ph].writes)
                /\ log[Len(log)] = ErrorLine(ph)
                /\ \A i \in setLines : i < Len(log)

\* a pre-script setVar("x", "y"); throw ... for the group prod, finished
C16_Witness ==
    /\ task["pre"].state = "done"
    /\ task["pre"].error
    /\ task["pre"].scriptOutput = <<"[Pre-Request Script]", "[Pre-Script] Variable set", "[Pre-Script Execution Error]">>
    /\ currentActiveGroup = ProdGroup
    /\ variableStore[ProdGroup][KeyX] = ValY

\* the text String() gives for the values handed to setVar in the model
ExpectedText(arg) == IF arg = NumberArg(7) THEN <<"7">> ELSE arg.chars

\* C17: a step of setVariable(key, value) leaves the store with the active
\* group present and holding String(value) under key, with no other group
\* added, removed or changed, and with every other key of the active group
\* as it was; with another group active, the global group is unchanged.
C17_SetVariableFrame ==
    [][(lastWrite' # lastWrite /\ lastWrite'.op = "setVar") =>
          LET g == currentActiveGroup
              k == lastWrite'.key
              before == GroupVars(variableStore, g)
          IN  /\ g \in DOMAIN variableStore'
              /\ k \in DOMAIN variableStore'[g]
              /\ variableStore'[g][k] = ExpectedText(lastWrite'.arg)
              /\ DOMAIN variableStore' = (DOMAIN variableStore) \cup {g}
              /\ \A h \in (DOMAIN variableStore) \ {g} :
                     variableStore'[h] = variableStore[h]
              /\ DOMAIN variableStore'[g] = (DOMAIN before) \cup {k}
              /\ \A j \in (DOMAIN before) \ {k} : variableStore'[g][j] = before[j]
              /\ (g # GlobalGroup /\ GlobalGroup \in DOMAIN variableStore) =>
                     variableStore'[GlobalGroup] = variableStore[GlobalGroup]
      ]_vars

\* setVar("x", 7) with the group dev active, which the store did not have:
\* dev holds x = "7" and the global x is still "1"
C17_Witness ==
    /\ lastWrite.op = "setVar"
    /\ lastWrite.group = DevGroup
    /\ lastWrite.arg = NumberArg(7)
    /\ DevGroup \in DOMAIN variableStore
    /\ variableStore[DevGroup] = [k \in {KeyX} |-> <<"7">>]
    /\ KeyX \in DOMAIN variableStore[GlobalGroup]
    /\ variableStore[GlobalGroup][KeyX] = <<"1">>

\* C18: what getVar(k) returns, and what a templating call puts for {{k}},
\* is the value the store holds when the call is made: the active group's
\* value, else the global group's, else undefined (the placeholder left as
\* written); getVar(k) right after setVar(k, v) returns String(v).
C18_ViewNeverStale ==
    /\ gotVar.called =>
           LET active == GroupVars(variableStore, gotVar.group)
               global == GroupVars(variableStore, GlobalGroup)
               k == gotVar.key
           IN  /\ gotVar.defined = (k \in (DOMAIN active) \cup (DOMAIN global))
               /\ gotVar.defined =>
                      gotVar.value = IF k \in DOMAIN active THEN active[k] ELSE global[k]
               /\ (lastWrite.op = "setVar" /\ lastWrite.key = k
                                           /\ lastWrite.group = gotVar.group) =>
                      /\ gotVar.defined
                      /\ gotVar.value = ExpectedText(lastWrite.arg)
    /\ templated.called =>
           LET active == GroupVars(variableStore, templated.group)
               global == GroupVars(variableStore, GlobalGroup)
               k == SubSeq(templated.templateString.chars, 3,
                           Len(templated.templateString.chars) - 2)
           IN  templated.result.chars =
                   IF k \in DOMAIN active THEN active[k]
                   ELSE IF k \in DOMAIN global THEN global[k]
                   ELSE templated.templateString.chars

\* getVar("x") right after setVar("x", 7) in the group prod, whose x was "9"
\* when the store was loaded
C18_Witness ==
    /\ gotVar.called
    /\ gotVar.key = KeyX
    /\ gotVar.group = ProdGroup
    /\ gotVar.value = <<"7">>
    /\ lastWrite.op = "setVar"
    /\ lastWrite.arg = NumberArg(7)

\* C19: the persisted copy under restClient.variables equals the store in
\* memory after the start of the application and after every operation on
\* the store.
C19_PersistedEqualsStore ==
    persistedVariables = variableStore

\* a group was created and then a variable of the global group deleted
C19_Witness ==
    /\ lastWrite.writes = 2
    /\ lastWrite.op = "delete"
    /\ lastWrite.group = GlobalGroup
    /\ DevGroup \in DOMAIN variableStore
    /\ persistedVariables = variableStore

\* C20 (as claimed): the store has the group global, and it is an object of
\* keys and values, in every state after the store was loaded.
C20_GlobalGroupIsMapping ==
    /\ GlobalGroup \in DOMAIN variableStore
    /\ GlobalGroup \notin primitiveGroups

\* C21: when the transport call of a script's http() has failed, the log of
\* the script runner has the HTTP error line, the script's promise rejected,
\* and once the runner has returned the script-error line follows the HTTP
\* error line.  The executor does not reject: after a pre-script the main
\* request has been sent once, after a post-script the response received is
\* the response displayed.
C21_HttpFailureStaysInScript ==
    \A ph \in Phases :
        "[HTTP Error]" \in LinesOf(task[ph].scriptOutput) =>
            LET log == task[ph].scriptOutput
            IN  /\ task[ph].error
                /\ task[ph].state \in {"returning", "done"}
                /\ task[ph].state = "returning" => log[Len(log)] = "[HTTP Error]"
                /\ task[ph].state = "done" =>
                       /\ log[Len(log)] = ErrorLine(ph)
                       /\ log[Len(log) - 1] = "[HTTP Error]"
                /\ ~rejected
                /\ Len(fetchCalls) = 1
                /\ ph = "post" =>
                       /\ transport.state = "resolved"
                       /\ Len(delivered) = 1
                       /\ delivered[1].response = transport.response
                       /\ delivered[1].responseData.kind # "error"

\* the http() of a post-script failed and the runner has returned, after the
\* http() of the pre-script failed too
C21_Witness ==
    /\ task["post"].state = "done"
    /\ "[HTTP Error]" \in LinesOf(task["post"].scriptOutput)
    /\ task["pre"].state = "done"
    /\ "[HTTP Error]" \in LinesOf(task["pre"].scriptOutput)
    /\ Len(delivered) = 1

\* the ids of the records of a collection are pairwise different
DistinctIds(collection) ==
    \A i, j \in 1..Len(collection) : collection[i].id = collection[j].id => i = j

\* saving an object without an id to a collection left every record of it in
\* place and added one record, whose id no other record has
SavedAsNew(before, after) ==
    /\ Len(after) = Len(before) + 1
    /\ SubSeq(after, 1, Len(before)) = before
    /\ DistinctIds(after)

\* C22: saving a script or a request that has no id adds one record with an
\* id that no stored record has: the collection grows by one, every record
\* stored before is still there as it was, and no two records share an id.
C22_SaveWithoutIdAddsRecord ==
    [][/\ (lastWrite'.op = "saveScript" /\ lastWrite' # lastWrite
              /\ lastWrite'.key = NoScriptId)
           => SavedAsNew(scriptCollection, scriptCollection')
       /\ (lastWrite'.op = "saveRequest" /\ lastWrite' # lastWrite
              /\ lastWrite'.key = NoScriptId)
           => SavedAsNew(requestCollection, requestCollection')]_vars

\* C23: the post-script is not run on the error edge.  When the transport
\* rejected or the result is an error object or the synthetic response, the
\* post-script was never called, and the transport rejected or the body could
\* not be read or parsed.  When the post-script was called, whatever became
\* of it, the response displayed is the response received.
C23_PostScriptOffErrorEdge ==
    /\ transport.state = "rejected" => task["post"].state = "absent"
    /\ (Len(delivered) = 1 /\ (\/ delivered[1].response.status = "N/A"
                               \/ delivered[1].responseData.kind = "error")) =>
           /\ task["post"].state = "absent"
           /\ delivered[1].response.status = "N/A"
           /\ delivered[1].responseData.kind = "error"
           /\ \/ transport.state = "rejected"
              \/ /\ transport.state = "resolved"
                 /\ delivered[1].responseData.error \in
                        {SyntaxError.message, BodyUsedError.message, "network error"}
    /\ task["post"].state # "absent" =>
           /\ transport.state = "resolved"
           /\ Len(delivered) = 1
           /\ delivered[1].response = transport.response
           /\ delivered[1].responseData.kind \in {"json", "text"}

\* the lookup of the post-script threw, and the response displayed is the
\* 200 response received
C23_Witness ==
    /\ pc = "done"
    /\ task["post"].state = "rejected"
    /\ Len(delivered) = 1
    /\ delivered[1].response.status = "200"
    /\ delivered[1].responseData.kind = "json"

\* C24: in one invocation the executor calls the pre-script at most once and
\* only when one is selected, then the transport once, then the post-script
\* at most once and only after the body was read; nothing is called again
\* after a failure.
C24_EachStepAtMostOnce ==
    /\ calls \in {<<>>, <<"transport">>, <<"pre", "transport">>,
                  <<"transport", "post">>, <<"pre", "transport", "post">>}
    /\ Len(fetchCalls) = Cardinality({i \in 1..Len(calls) : calls[i] = "transport"})
    /\ pc # "idle" =>
           /\ Len(fetchCalls) = 1
           /\ (calls[1] = "pre") = (args.preScriptId # NoScriptId)
           /\ (task["pre"].state # "absent") = (args.preScriptId # NoScriptId)
    /\ (calls # <<>> /\ calls[Len(calls)] = "post") = (task["post"].state # "absent")
    /\ (pc = "done" /\ delivered[1].responseData.kind = "error") =>
           calls \in {<<"transport">>, <<"pre", "transport">>}

\* a pre-script that threw, the transport rejected, and the result displayed
\* with the transport called once
C24_Witness ==
    /\ pc = "done"
    /\ task["pre"].error
    /\ task["pre"].state = "done"
    /\ transport.state = "rejected"
    /\ calls = <<"pre", "transport">>

\* no value of the store has a placeholder in it
NoPlaceholderInValues ==
    \A g \in DOMAIN variableStore : \A k \in DOMAIN variableStore[g] :
        PlaceholderSpans(variableStore[g][k]) = {}

\* C25 (as claimed): when no value of the variable table contains a
\* placeholder, applying the template engine to its own result gives that
\* result again.
C25_TemplateIdempotent ==
    (templated.called /\ ~templated.templateString.isNull /\ NoPlaceholderInValues) =>
        applyTemplate(templated.result.chars, variableStore, templated.group)
            = templated.result.chars

\* C26 (as claimed): every setVar of a script of an invocation writes to the
\* group the invocation was started with, the group its templating reads,
\* also when a second invocation was started with another group meanwhile.
C26_ScriptsUseOwnGroup ==
    [][\A ph \in Phases :
          Len(task'[ph].writes) > Len(task[ph].writes) =>
              variableStore' = setVariableIn(variableStore, args'.activeVariableGroup,
                                             KeyX, StringArg(ValY))]_vars

\* the variables of a store as pairs of group and key
EntriesOf(store) ==
    UNION {{<<g, k>> : k \in DOMAIN store[g]} : g \in DOMAIN store}

\* the value store has for the key of the group is the value given
Holds(store, group, key, value) ==
    /\ <<group, key>> \in EntriesOf(store)
    /\ store[group][key] = value

\* C27: writes of overlapping pipelines and of the variables panel do not
\* disturb one another.  Every step that writes leaves its value in the
\* store, changes at most one variable, removes none, and the persisted copy
\* equals the store after it; so a variable holds the value of the last
\* write to it, whatever was written to other variables since.
C27_WritesAreAtomic ==
    [][/\ persistedVariables' = variableStore'
       /\ EntriesOf(variableStore) \subseteq EntriesOf(variableStore')
       /\ Cardinality({e \in EntriesOf(variableStore') :
                          \/ e \notin EntriesOf(variableStore)
                          \/ variableStore'[e[1]][e[2]] # variableStore[e[1]][e[2]]}) <= 1
       /\ (\E ph \in Phases : Len(task'[ph].writes) > Len(task[ph].writes))
              => Holds(variableStore', currentActiveGroup', KeyX, ValY)
       /\ (other'.pc = "fetching" /\ other.pc = "idle")
              => Holds(variableStore', other'.activeVariableGroup, KeyB, UiValue)
       /\ (lastWrite' # lastWrite /\ lastWrite'.op = "add")
              => Holds(variableStore', lastWrite'.group, lastWrite'.key,
                       lastWrite'.arg.chars)]_vars

\* a script of the first invocation, the pre-script of the second and the
\* panel have all written, and the group prod holds the values of the last
\* writes to x and to b
C27_Witness ==
    /\ task["pre"].writes # <<>>
    /\ other.pc # "idle"
    /\ lastWrite.op = "add"
    /\ Holds(variableStore, ProdGroup, KeyB, UiValue)
    /\ Holds(variableStore, ProdGroup, KeyX, ValY)
    /\ Holds(variableStore, GlobalGroup, KeyX, UiValue)
    /\ persistedVariables = variableStore

\* C28: displayResponse is called exactly once per invocation of
\* executeRequest, whatever the outcome and whether or not the callback
\* throws: not before the invocation has finished, and once when it has.
C28_CallbackExactlyOnce ==
    /\ pc = "done" => Len(delivered) = 1
    /\ pc # "done" => Len(delivered) = 0

\* the callback threw while it displayed an OK response, and was called once
C28_Witness ==
    /\ pc = "done"
    /\ displayThrows
    /\ rejected
    /\ transport.state = "resolved"
    /\ response.statusText = "OK"
    /\ Len(delivered) = 1

\* C29 (as claimed): for every string and every variable table, the cURL
\* generator's applyTemplateToString returns the text applyTemplate returns,
\* also for placeholders with inner spaces.
C29_CurlResolvesAsExecutor ==
    curl.called =>
        curl.result = applyTemplateValue(templated.templateString, variableStore,
                                         curl.group)

\* the persisted flat mapping as the variables of one group
LegacyMapping ==
    [k \in {KeyOfName(n) : n \in DOMAIN persistedVariables} |->
        LET n == CHOOSE m \in DOMAIN persistedVariables : KeyOfName(m) = k
        IN  PersistedContent.data[n].chars]

\* C30 (as claimed): loading a persisted flat mapping of keys to strings,
\* also one with a key named global, returns the store {global: the mapping}
\* and persists it when the mapping is not empty; loading again returns the
\* same store.
C30_MigrationKeepsData ==
    [][/\ (lastWrite.op = "none" /\ lastWrite'.op = "load") =>
             /\ variableStore' = [g \in {GlobalGroup} |-> LegacyMapping]
             /\ primitiveGroups' = {}
             /\ DOMAIN persistedVariables # {} => persistedVariables' = variableStore'
       /\ (lastWrite.op = "load" /\ lastWrite'.writes > lastWrite.writes) =>
             /\ variableStore' = variableStore
             /\ persistedVariables' = persistedVariables]_vars

====
